---------------------------- MODULE Spec2Model ----------------------------
(***************************************************************************)
(* State 51 detector: the anomaly-detection and pattern-analysis engine.   *)
(*                                                                         *)
(*   SensorMonitor    (services/SensorMonitor.js,   src/unnamed/part_000)  *)
(*   DatabaseService  (services/DatabaseService.js, src/unnamed/part_002)  *)
(*   BackgroundService (src/src/services/BackgroundService.js)             *)
(*                                                                         *)
(* JavaScript runs the code on one event loop: a handler runs without      *)
(* interruption up to its next `await`, so one action of this module is    *)
(* one such run-to-completion segment of a handler.                        *)
(*                                                                         *)
(* Units.  Magnetic field in tenths of a microtesla, pressure in tenths    *)
(* of a hPa, battery level in thousandths, time in milliseconds.           *)
(***************************************************************************)
EXTENDS Integers, Sequences, FiniteSets, TLC

VARIABLES
  \* ---- SensorMonitor fields (part_000:13-29)
  isMonitoring,     \* this.isMonitoring
  subscriptions,    \* this.subscriptions: the channel of each handle, in push order
  baselineData,     \* this.baselineData: <<>> is null, <<b>> a baseline
  anomalies,        \* this.anomalies
  frequencyBuffers, \* this.frequencyBuffers: sensorType -> points, <<>> when absent
  \* ---- asynchronous calls in flight
  startCalls,       \* startMonitoring() calls suspended at an await, by position;
                    \* at saveBaseline, the baselines being written, oldest first
  scanCalls,        \* scan() calls suspended at an await
  scanTimers,       \* pending setTimeout(scan, 60000)
  saveQueue,        \* recordAnomaly() calls awaiting saveAnomaly, oldest first
  \* ---- collaborators
  listeners,        \* Sensor Source: listeners attached, per channel
  now,              \* Date.now()
  baselinesTable,   \* Persistence Store, table baselines
  anomaliesTable,   \* table anomalies
  scansTable,       \* table scans
  dailyReportsTable,\* table daily_reports
  reportQueue,      \* generateDailyReport() calls, in the order of their pending
                    \* database transactions
  alerts,           \* Alert Sink: the ids of the anomalies triggerAlert was called with
  \* ---- BackgroundService
  backgroundCall,   \* executeBackgroundTask() suspended at an await: <<>> or <<call>>
  \* ---- history (not program state)
  lastCall,         \* the last public call: "none", "start" or "stop"
  stopsInARow,      \* consecutive stopMonitoring() calls just made, capped at 2
  created,          \* Anomaly records created so far, by any producer
  createdAtStart,   \* `created` when monitoring was last started, Undefined before
  backgroundFound,  \* every anomaly detectBackgroundAnomalies has returned
  lastSample,       \* the sample delivered last and what each listener made of it
  lastInsert,       \* the frequency sample delivered last and how it was analysed
  generated,        \* the generateDailyReport() calls that have settled, in order
  lastAnalysis,     \* what analyzePatterns() returned last: <<>> or <<patterns>>
  lastTrend,        \* the series calculateTrend() was last called on, and its result
  lastReports,      \* what the channels reported to the last getSensorSnapshot()
  locationChain,    \* checkLocation() calls awaiting the position, and their timers
  isActive,         \* State51Generator.isActive
  loops,            \* the generate...() loops that have not returned, per modality
  \* ---- the service worker (part_003)
  localStorage,     \* the keys pendingAnomalies and processedAnomalies, parsed
  \* ---- history (not program state)
  queued,           \* the anomalies queueAnomalyForSync has been called with so far
  lastEffect,       \* the rows state51Effect was last computed from, and the effect
  lastWindow,       \* the date and time zone of the last day window, and the window
  lastFlags         \* the rows the pattern flags were last derived from, and the flags

\* The service worker's storage and the history of the pure computations.
sideVars == <<localStorage, queued, lastEffect, lastWindow, lastFlags>>

vars == <<isMonitoring, subscriptions, baselineData, anomalies, startCalls,
          scanCalls, scanTimers, saveQueue, listeners, now, baselinesTable,
          anomaliesTable, scansTable, alerts, backgroundCall, lastCall,
          stopsInARow, created, createdAtStart, backgroundFound, lastSample,
          frequencyBuffers, dailyReportsTable, reportQueue, lastInsert, generated,
          lastAnalysis, lastTrend, lastReports, locationChain,
          isActive, loops, sideVars>>

-----------------------------------------------------------------------------
(* Bounds of the model *)

MaxStarts == 2        \* startMonitoring() calls in flight at once
MaxAnomalies == 3     \* anomalies recorded in one behaviour
MaxScans == 2         \* scan rows written in one behaviour
MaxClock == 1         \* clock steps of one hour
MaxSamples == 12      \* accelerometer or gyroscope samples delivered
MaxReports == 2       \* generateDailyReport() calls made
MaxLoops == 2         \* generation loops of one modality running at once
MaxEffectRows == 2    \* anomaly rows, and scan rows, the effect is computed from
MaxPatternRows == 2   \* rows of any kind analyzePatterns() reads
MaxDailyRows == 25    \* rows of one kind analyzePatterns() reads
MaxRecent == 2        \* rows of the last hour among them
MaxQueued == 3        \* anomalies queued for background sync
MaxSeries == 6        \* values of a series handed to calculateTrend()
MaxSessionSamples == 3 \* frequency samples delivered across stops and starts

-----------------------------------------------------------------------------
(* Values *)

Undefined == 0 - 1    \* a property an object does not have

Tenths(x) == 10 * x

\* part_000:21-28
thresholds == [magneticField |-> 10, batteryDrain |-> 77, signalStrength |-> 28,
               gpsAccuracy |-> 51, temperature |-> 34, pressure |-> 2]

\* The channels monitored through a listener (part_000:49-53), in push order.
ListenerChannels == <<"battery", "magnetometer", "accelerometer", "gyroscope",
                      "barometer">>

Channels == {ListenerChannels[i] : i \in 1..Len(ListenerChannels)}

NoListeners == [c \in Channels |-> 0]

\* JavaScript truthiness of a numeric property: undefined and 0 are falsy.
Truthy(v) == v # Undefined /\ v # 0

\* What the battery, magnetometer and barometer listeners, the scan and the
\* start and stop of the monitor leave alone.
bgVars == <<backgroundCall, backgroundFound>>
freqVars == <<frequencyBuffers, lastInsert>>
reportVars == <<dailyReportsTable, reportQueue, generated>>
outsideMonitor == <<bgVars, freqVars, reportVars, lastAnalysis, lastTrend,
                    lastReports,
                 locationChain, isActive, loops, sideVars>>

-----------------------------------------------------------------------------
(* Sensor Source and clock *)

Hour == 3600000

\* The behaviour starts at 03:00 local time, inside the cosmic window.
StartOfRun == 3 * Hour

\* new Date().getHours() (part_000:413, BackgroundService.js:253)
getHours(t) == (t \div Hour) % 24

\* new Date().getMinutes() (part_000:445)
getMinutes(t) == (t \div 60000) % 60

\* A window with no end: from 3 AM on.
isCosmicWindowFromThree(t) == getHours(t) >= 3

\* part_000:412-415
isCosmicWindow(t) == getHours(t) >= 3 /\ getHours(t) < 4

\* Battery.getBatteryLevelAsync() when a baseline is established (part_000:484).
BaselineBatteryLevels == {500}

\* Math.sqrt, rounded down (Newton's iteration); the samples below have sums of
\* squares that are perfect squares, for which it is exact.
RECURSIVE Newton(_, _)
Newton(s, r) ==
  LET next == (r + s \div r) \div 2 IN IF next >= r THEN r ELSE Newton(s, next)

Sqrt(s) == IF s < 2 THEN s ELSE Newton(s, s)

\* part_000:155
magnitude(data) == Sqrt(data.x * data.x + data.y * data.y + data.z * data.z)

\* What a channel reports when the snapshot is taken: the call raises, or it
\* resolves to null (no sample yet), or to `data`.
SensorReport(readings) ==
  {[raises |-> TRUE, data |-> <<>>], [raises |-> FALSE, data |-> <<>>]}
    \cup {[raises |-> FALSE, data |-> <<reading>>] : reading \in readings}

\* A magnetometer at rest in a shielded or simulated environment reports
\* (0, 0, 0), as a gyroscope at rest does.
SnapshotReports ==
  [magnetometer : SensorReport({[x |-> 0, y |-> 0, z |-> 0],
                                [x |-> 0, y |-> 0, z |-> Tenths(40)]}),
   accelerometer : SensorReport({[x |-> 0, y |-> 0, z |-> Tenths(1)]}),
   gyroscope : SensorReport({[x |-> 0, y |-> 0, z |-> 0]}),
   barometer : SensorReport({[pressure |-> Tenths(1010)]}),
   location : SensorReport({[coords |-> [accuracy |-> Tenths(40)]]})]

\* A snapshot that holds 0 for a channel that did not report: not the snapshot
\* getSensorSnapshot() builds.
SnapshotZeroFilled(reports) ==
  [magneticField |-> IF reports.magnetometer.data # <<>>
                       THEN magnitude(reports.magnetometer.data[1]) ELSE 0,
   acceleration |-> IF reports.accelerometer.data # <<>>
                      THEN magnitude(reports.accelerometer.data[1]) ELSE 0,
   rotation |-> IF reports.gyroscope.data # <<>>
                  THEN magnitude(reports.gyroscope.data[1]) ELSE 0,
   pressure |-> IF reports.barometer.data # <<>>
                  THEN reports.barometer.data[1].pressure ELSE 0,
   gpsAccuracy |-> IF reports.location.data # <<>>
                     THEN reports.location.data[1].coords.accuracy ELSE 0]

\* getSensorSnapshot() (part_000:517-561): every channel is read inside its own
\* try/catch, and a property is set only for a channel that reported data.
getSensorSnapshot(reports) ==
  [magneticField |-> IF reports.magnetometer.data # <<>>
                       THEN magnitude(reports.magnetometer.data[1]) ELSE Undefined,
   acceleration |-> IF reports.accelerometer.data # <<>>
                      THEN magnitude(reports.accelerometer.data[1]) ELSE Undefined,
   rotation |-> IF reports.gyroscope.data # <<>>
                  THEN magnitude(reports.gyroscope.data[1]) ELSE Undefined,
   pressure |-> IF reports.barometer.data # <<>>
                  THEN reports.barometer.data[1].pressure ELSE Undefined,
   gpsAccuracy |-> IF reports.location.data # <<>>
                     THEN reports.location.data[1].coords.accuracy ELSE Undefined]

-----------------------------------------------------------------------------
(* SensorMonitor: start and stop *)

\* The Anomaly records created since monitoring was started, by any producer
\* (the clock does not move between a scan's timestamp and its count).
createdSinceStart ==
  IF createdAtStart = Undefined THEN Undefined ELSE created - createdAtStart

InFlightStarts ==
  startCalls.permissions + startCalls.establish + Len(startCalls.saveBaseline)

\* Every action but stopMonitoring() ends a run of consecutive stops.
NotAStop == stopsInARow' = 0

\* A scan() without the test of isMonitoring at its head: not the scan() of the
\* monitor.
scanEnterAlways(calls) ==
  Append(calls, [pc |-> "reads", timestamp |-> now, anomalyCount |-> Undefined,
                 expected |-> Undefined, analysisAt |-> Undefined,
                 recentCount |-> Undefined])

\* scan(), up to its first await (part_000:429-434): a no-op when stopped, else
\* scanData.timestamp is taken and the battery read begins.
scanEnter(calls) ==
  IF isMonitoring
    THEN Append(calls, [pc |-> "reads", timestamp |-> now, anomalyCount |-> Undefined,
                        expected |-> Undefined, analysisAt |-> Undefined,
                        recentCount |-> Undefined])
    ELSE calls

\* checkLocation(), up to its await (part_000:281-286): a no-op when stopped,
\* else the position is asked for.
checkLocationEnter(chain) ==
  IF isMonitoring THEN [chain EXCEPT !.calls = @ + 1] ELSE chain

\* part_000:48-58: the monitors attach their listeners and monitorLocation()
\* makes its first check, then startPeriodicScan().
\* (monitorBarometer's guard tests a Promise, which is always truthy: part_000:225.)
startAllMonitors ==
  /\ subscriptions' = subscriptions \o ListenerChannels
  /\ listeners' = [c \in Channels |-> listeners[c] + 1]
  /\ locationChain' = checkLocationEnter(locationChain)
  /\ scanCalls' = scanEnter(scanCalls)

\* startMonitoring(), up to `await this.requestPermissions()` (part_000:34-41).
StartMonitoring ==
  /\ InFlightStarts + Len(scanCalls) + scanTimers < MaxStarts
  /\ InFlightStarts + locationChain.calls + locationChain.timers < MaxStarts
  /\ lastCall' = "start"
  /\ NotAStop
  /\ IF isMonitoring
       THEN UNCHANGED <<isMonitoring, startCalls, createdAtStart>>
       ELSE /\ isMonitoring' = TRUE
            /\ startCalls' = [startCalls EXCEPT !.permissions = @ + 1]
            /\ createdAtStart' = created
  /\ UNCHANGED <<subscriptions, baselineData, anomalies, scanCalls, scanTimers,
                 saveQueue, listeners, now, baselinesTable, anomaliesTable,
                 scansTable, alerts, created, lastSample>>
  /\ UNCHANGED outsideMonitor

\* requestPermissions() settles (it swallows its own errors, part_000:81-90);
\* startMonitoring() resumes at part_000:44.
PermissionsSettle ==
  /\ startCalls.permissions > 0
  /\ NotAStop
  /\ IF baselineData = <<>>
       THEN \* establishBaseline() begins its reads (part_000:98-104)
            /\ startCalls' = [startCalls EXCEPT !.permissions = @ - 1,
                                                !.establish = @ + 1]
            /\ UNCHANGED <<subscriptions, listeners, scanCalls, locationChain, isActive, loops, sideVars>>
       ELSE /\ startCalls' = [startCalls EXCEPT !.permissions = @ - 1]
            /\ startAllMonitors
  /\ UNCHANGED <<isMonitoring, baselineData, anomalies, scanTimers, saveQueue, now,
                 baselinesTable, anomaliesTable, scansTable, alerts, lastCall,
                 created, createdAtStart, lastSample>>
  /\ UNCHANGED <<bgVars, freqVars, reportVars, lastAnalysis, lastTrend,
                 lastReports, isActive, loops, sideVars>>

\* establishBaseline(): the reads settle, this.baselineData is assigned and
\* saveBaseline is called (part_000:98-107).
EstablishBaselineReads ==
  /\ startCalls.establish > 0
  /\ NotAStop
  /\ \E level \in BaselineBatteryLevels, reports \in SnapshotReports :
       LET baseline == [timestamp |-> now, battery |-> [level |-> level],
                        sensors |-> getSensorSnapshot(reports)]
       IN /\ baselineData' = <<baseline>>
          /\ lastReports' = <<reports>>
          /\ startCalls' = [startCalls EXCEPT !.establish = @ - 1,
                                             !.saveBaseline = Append(@, baseline)]
  /\ UNCHANGED <<isMonitoring, subscriptions, anomalies, scanCalls, scanTimers,
                 saveQueue, listeners, now, baselinesTable, anomaliesTable,
                 scansTable, alerts, lastCall, created, createdAtStart, lastSample>>
  /\ UNCHANGED <<bgVars, freqVars, reportVars, lastAnalysis, lastTrend,
                 locationChain, isActive, loops, sideVars>>

\* A battery or network read of establishBaseline() raises (part_000:100-101):
\* establishBaseline() and startMonitoring() reject.
EstablishBaselineFails ==
  /\ startCalls.establish > 0
  /\ NotAStop
  /\ startCalls' = [startCalls EXCEPT !.establish = @ - 1]
  /\ UNCHANGED <<isMonitoring, subscriptions, baselineData, anomalies, scanCalls,
                 scanTimers, saveQueue, listeners, now, baselinesTable,
                 anomaliesTable, scansTable, alerts, lastCall, created,
                 createdAtStart, lastSample>>
  /\ UNCHANGED outsideMonitor

\* saveBaseline resolves (part_002:99-110); startMonitoring() resumes at part_000:48.
SaveBaselineResolves ==
  /\ startCalls.saveBaseline # <<>>
  /\ NotAStop
  /\ baselinesTable' = Append(baselinesTable, Head(startCalls.saveBaseline))
  /\ startCalls' = [startCalls EXCEPT !.saveBaseline = Tail(@)]
  /\ startAllMonitors
  /\ UNCHANGED <<isMonitoring, baselineData, anomalies, scanTimers, saveQueue, now,
                 anomaliesTable, scansTable, alerts, lastCall, created,
                 createdAtStart, lastSample>>
  /\ UNCHANGED <<bgVars, freqVars, reportVars, lastAnalysis, lastTrend,
                 lastReports, isActive, loops, sideVars>>

\* saveBaseline rejects: establishBaseline() and startMonitoring() reject.
SaveBaselineRejects ==
  /\ startCalls.saveBaseline # <<>>
  /\ NotAStop
  /\ startCalls' = [startCalls EXCEPT !.saveBaseline = Tail(@)]
  /\ UNCHANGED <<isMonitoring, subscriptions, baselineData, anomalies, scanCalls,
                 scanTimers, saveQueue, listeners, now, baselinesTable,
                 anomaliesTable, scansTable, alerts, lastCall, created,
                 createdAtStart, lastSample>>
  /\ UNCHANGED outsideMonitor

\* sub.remove() for every handle of `subs` (part_000:68-72).
removeAll(subs, attached) ==
  [c \in Channels |-> attached[c] - Cardinality({i \in 1..Len(subs) : subs[i] = c})]

\* stopMonitoring() without `this.subscriptions = []`: the handles stay in the list.
StopMonitoringKeepsHandles ==
  /\ isMonitoring' = FALSE
  /\ listeners' = removeAll(subscriptions, listeners)
  /\ subscriptions' = subscriptions
  /\ lastCall' = "stop"
  /\ stopsInARow' = IF stopsInARow < 2 THEN stopsInARow + 1 ELSE 2
  /\ UNCHANGED <<baselineData, anomalies, startCalls, scanCalls, scanTimers,
                 saveQueue, now, baselinesTable, anomaliesTable, scansTable, alerts,
                 created, createdAtStart, lastSample>>
  /\ UNCHANGED outsideMonitor

\* stopMonitoring() (part_000:64-76)
StopMonitoring ==
  /\ isMonitoring' = FALSE
  /\ listeners' = removeAll(subscriptions, listeners)
  /\ subscriptions' = <<>>
  /\ lastCall' = "stop"
  /\ stopsInARow' = IF stopsInARow < 2 THEN stopsInARow + 1 ELSE 2
  /\ UNCHANGED <<baselineData, anomalies, startCalls, scanCalls, scanTimers,
                 saveQueue, now, baselinesTable, anomaliesTable, scansTable, alerts,
                 created, createdAtStart, lastSample>>
  /\ UNCHANGED outsideMonitor

-----------------------------------------------------------------------------
(* SensorMonitor: recording an anomaly *)

\* `flag ? 1 : 0` (part_002:128, 161-162)
truthyFlag(flag) == IF flag THEN 1 ELSE 0

\* The row saveAnomaly(anomaly) inserts (part_002:119-131): the column
\* cosmic_window holds `anomaly.cosmicWindow ? 1 : 0`; the other columns of the
\* model hold the properties of their name.
anomalyRow(anomaly) ==
  [column \in (DOMAIN anomaly \ {"cosmicWindow"}) \cup {"cosmic_window"} |->
     IF column = "cosmic_window" THEN truthyFlag(anomaly.cosmicWindow)
                                 ELSE anomaly[column]]

\* recordAnomaly(anomaly), up to `await DatabaseService.saveAnomaly(anomaly)`
\* (part_000:394-399), for each anomaly of `found` in turn: the anomaly is stamped
\* and pushed, and its save joins the database's transaction queue.
stamp(found) ==
  [i \in 1..Len(found) |->
     [id |-> created + i, type |-> found[i].type,
      significance |-> found[i].significance,
      timestamp |-> now, cosmicWindow |-> isCosmicWindow(now)]]

recordAnomalies(found) ==
  /\ Len(anomalies) + Len(found) <= MaxAnomalies
  /\ anomalies' = anomalies \o stamp(found)
  /\ saveQueue' = saveQueue \o [i \in 1..Len(found) |-> Len(anomalies) + i]
  /\ created' = created + Len(found)

\* The sequence without its i-th element.
RemoveAt(q, i) == SubSeq(q, 1, i - 1) \o SubSeq(q, i + 1, Len(q))

\* part_000:404
needsAlert(a) == a.significance = "high" \/ a.significance = "critical"

\* A database that runs the newest waiting transaction first: not the order in
\* which db.transaction() runs them.
SaveAnomalyResolvesNewestFirst ==
  /\ saveQueue # <<>>
  /\ NotAStop
  /\ anomaliesTable' = Append(anomaliesTable,
                              anomalyRow(anomalies[saveQueue[Len(saveQueue)]]))
  /\ alerts' = IF needsAlert(anomalies[saveQueue[Len(saveQueue)]])
                 THEN Append(alerts, anomalies[saveQueue[Len(saveQueue)]].id)
                 ELSE alerts
  /\ saveQueue' = SubSeq(saveQueue, 1, Len(saveQueue) - 1)
  /\ UNCHANGED <<isMonitoring, subscriptions, baselineData, anomalies, startCalls,
                 scanCalls, scanTimers, listeners, now, baselinesTable, scansTable,
                 lastCall, created, createdAtStart, lastSample>>
  /\ UNCHANGED outsideMonitor

\* saveAnomaly resolves for the oldest waiting recordAnomaly() (part_002:115-137),
\* which resumes at part_000:401-406.
SaveAnomalyResolves ==
  /\ saveQueue # <<>>
  /\ NotAStop
  /\ anomaliesTable' = Append(anomaliesTable, anomalyRow(anomalies[Head(saveQueue)]))
  /\ alerts' = IF needsAlert(anomalies[Head(saveQueue)])
                 THEN Append(alerts, anomalies[Head(saveQueue)].id)
                 ELSE alerts
  /\ saveQueue' = Tail(saveQueue)
  /\ UNCHANGED <<isMonitoring, subscriptions, baselineData, anomalies, startCalls,
                 scanCalls, scanTimers, listeners, now, baselinesTable, scansTable,
                 lastCall, created, createdAtStart, lastSample>>
  /\ UNCHANGED outsideMonitor

\* A recordAnomaly() that takes its anomaly back out of this.anomalies when the
\* write rejects: what the monitor does not do.
SaveAnomalyRejectsUncounted ==
  /\ saveQueue # <<>>
  /\ NotAStop
  /\ anomalies' = RemoveAt(anomalies, Head(saveQueue))
  /\ saveQueue' = [k \in 1..(Len(saveQueue) - 1) |-> saveQueue[k + 1] - 1]
  /\ UNCHANGED <<isMonitoring, subscriptions, baselineData, startCalls,
                 scanCalls, scanTimers, listeners, now, baselinesTable,
                 anomaliesTable, scansTable, alerts, lastCall, created,
                 createdAtStart, lastSample>>
  /\ UNCHANGED outsideMonitor

\* saveAnomaly rejects: recordAnomaly() rejects at its await (part_000:399).
SaveAnomalyRejects ==
  /\ saveQueue # <<>>
  /\ NotAStop
  /\ saveQueue' = Tail(saveQueue)
  /\ UNCHANGED <<isMonitoring, subscriptions, baselineData, anomalies, startCalls,
                 scanCalls, scanTimers, listeners, now, baselinesTable,
                 anomaliesTable, scansTable, alerts, lastCall, created,
                 createdAtStart, lastSample>>
  /\ UNCHANGED outsideMonitor

-----------------------------------------------------------------------------
(* SensorMonitor: the periodic scan *)

\* The reads of scanData settle and anomalyCount is read (part_000:434-440), then
\* saveScan is called (part_000:442).
ScanReadsSettle(i) ==
  /\ scanCalls[i].pc = "reads"
  /\ NotAStop
  /\ scanCalls' = [scanCalls EXCEPT ![i].pc = "save",
                                    ![i].anomalyCount = Len(anomalies),
                                    ![i].expected = createdSinceStart]
  /\ UNCHANGED <<isMonitoring, subscriptions, baselineData, anomalies, startCalls,
                 scanTimers, saveQueue, listeners, now, baselinesTable,
                 anomaliesTable, scansTable, alerts, lastCall, created,
                 createdAtStart, lastSample>>
  /\ UNCHANGED outsideMonitor

\* getBatteryData() or getNetworkData() raises inside scan() (part_000:434-435).
ScanReadsFail(i) ==
  /\ scanCalls[i].pc = "reads"
  /\ NotAStop
  /\ scanCalls' = RemoveAt(scanCalls, i)
  /\ UNCHANGED <<isMonitoring, subscriptions, baselineData, anomalies, startCalls,
                 scanTimers, saveQueue, listeners, now, baselinesTable,
                 anomaliesTable, scansTable, alerts, lastCall, created,
                 createdAtStart, lastSample>>
  /\ UNCHANGED outsideMonitor

\* saveScan resolves (part_002:142-170).  On the hour scan() goes on to
\* analyzeHourlyPatterns(), which calls analyzePatterns() up to its first read
\* (part_000:445-446, 459, part_002:212-217); else the next scan is scheduled
\* (part_000:449).
SaveScanResolves(i) ==
  /\ scanCalls[i].pc = "save"
  /\ Len(scansTable) < MaxScans
  /\ NotAStop
  /\ scansTable' = Append(scansTable,
                          [timestamp |-> scanCalls[i].timestamp,
                           anomaly_count |-> scanCalls[i].anomalyCount,
                           writer |-> "scan", expected |-> scanCalls[i].expected,
                           state51_active |-> truthyFlag(FALSE),
                           generating |-> isActive])
  /\ IF getMinutes(now) = 0
       THEN /\ scanCalls' = [scanCalls EXCEPT ![i].pc = "recent",
                                              ![i].analysisAt = now]
            /\ scanTimers' = scanTimers
       ELSE /\ scanCalls' = RemoveAt(scanCalls, i)
            /\ scanTimers' = scanTimers + 1
  /\ UNCHANGED <<isMonitoring, subscriptions, baselineData, anomalies, startCalls,
                 saveQueue, listeners, now, baselinesTable, anomaliesTable, alerts,
                 lastCall, created, createdAtStart, lastSample>>
  /\ UNCHANGED outsideMonitor

\* saveScan rejects: scan() rejects before it reschedules itself.
SaveScanRejects(i) ==
  /\ scanCalls[i].pc = "save"
  /\ NotAStop
  /\ scanCalls' = RemoveAt(scanCalls, i)
  /\ UNCHANGED <<isMonitoring, subscriptions, baselineData, anomalies, startCalls,
                 scanTimers, saveQueue, listeners, now, baselinesTable,
                 anomaliesTable, scansTable, alerts, lastCall, created,
                 createdAtStart, lastSample>>
  /\ UNCHANGED outsideMonitor

\* A setTimeout(scan, 60000) fires (part_000:449, 429-434).
ScanTimerFires ==
  /\ scanTimers > 0
  /\ NotAStop
  /\ scanTimers' = scanTimers - 1
  /\ scanCalls' = scanEnter(scanCalls)
  /\ UNCHANGED <<isMonitoring, subscriptions, baselineData, anomalies, startCalls,
                 saveQueue, listeners, now, baselinesTable, anomaliesTable,
                 scansTable, alerts, lastCall, created, createdAtStart, lastSample>>
  /\ UNCHANGED outsideMonitor

\* Time passes.
Tick ==
  /\ now < StartOfRun + MaxClock * Hour
  /\ NotAStop
  /\ now' = now + Hour
  /\ UNCHANGED <<isMonitoring, subscriptions, baselineData, anomalies, startCalls,
                 scanCalls, scanTimers, saveQueue, listeners, baselinesTable,
                 anomaliesTable, scansTable, alerts, lastCall, created,
                 createdAtStart, lastSample>>
  /\ UNCHANGED outsideMonitor

-----------------------------------------------------------------------------
(* SensorMonitor: the sample listeners *)

Abs(x) == IF x < 0 THEN 0 - x ELSE x

\* Samples the Sensor Source delivers.
MagnetometerData == {[x |-> 0, y |-> 0, z |-> Tenths(50)],
                     [x |-> 306, y |-> 408, z |-> 0],
                     [x |-> 0, y |-> 0, z |-> 525]}
BarometerData == {[pressure |-> Tenths(1010)], [pressure |-> Tenths(1012)],
                  [pressure |-> Tenths(1013)]}
BatteryData == {[batteryLevel |-> 510], [batteryLevel |-> 432],
                [batteryLevel |-> 423], [batteryLevel |-> 412],
                [batteryLevel |-> 410], [batteryLevel |-> 346]}

\* The magnetometer listener (part_000:154-181): the anomalies it passes to
\* recordAnomaly, in order.
magnetometerListener(data, baseline) ==
  IF baseline # <<>> /\ Truthy(baseline[1].sensors.magneticField)
    THEN LET change == Abs(magnitude(data) - baseline[1].sensors.magneticField) IN
           (IF change > Tenths(thresholds.magneticField)
              THEN <<[type |-> "magnetic_anomaly",
                      significance |-> IF change > Tenths(50) THEN "high" ELSE "medium"]>>
              ELSE <<>>)
           \o
           (IF Abs(magnitude(data) - Tenths(51)) < Tenths(1)
              THEN <<[type |-> "magnetic_51", significance |-> "high"]>>
              ELSE <<>>)
    ELSE <<>>

\* A barometer listener that takes a baseline without a pressure for a pressure
\* of 0: not what the listener does.
barometerListenerFromZero(data, baseline) ==
  IF baseline # <<>>
    THEN LET reference == IF Truthy(baseline[1].sensors.pressure)
                            THEN baseline[1].sensors.pressure ELSE 0
             change == Abs(data.pressure - reference) IN
           IF change > Tenths(thresholds.pressure)
             THEN <<[type |-> "pressure_anomaly", significance |-> "low"]>>
             ELSE <<>>
    ELSE <<>>

\* The barometer listener (part_000:229-244).
barometerListener(data, baseline) ==
  IF baseline # <<>> /\ Truthy(baseline[1].sensors.pressure)
    THEN LET change == Abs(data.pressure - baseline[1].sensors.pressure) IN
           IF change > Tenths(thresholds.pressure)
             THEN <<[type |-> "pressure_anomaly", significance |-> "low"]>>
             ELSE <<>>
    ELSE <<>>

\* The comparison with a tolerance of 0.02 instead of 0.01.
nearDrainTargetWide(drainRate, elapsed) ==
  /\ elapsed > 0
  /\ Abs(drainRate * Hour - thresholds.batteryDrain * elapsed) < 20 * elapsed

\* Math.abs(drainPerHour - 0.077) < 0.01 for drainPerHour = drainRate / (elapsed
\* / 3600000), drainRate in thousandths and elapsed in ms.  A division by zero
\* gives an infinity or NaN, for which the comparison is false.
nearDrainTarget(drainRate, elapsed) ==
  /\ elapsed > 0
  /\ Abs(drainRate * Hour - thresholds.batteryDrain * elapsed) < 10 * elapsed

\* drainPerHour < 0: drainRate / 0 is -Infinity for a negative drainRate.
drainNegative(drainRate, elapsed) == elapsed >= 0 /\ drainRate < 0

\* The battery listener (part_000:116-143).
batteryListener(data, baseline, t) ==
  IF baseline # <<>>
    THEN LET drainRate == baseline[1].battery.level - data.batteryLevel
             timeElapsed == t - baseline[1].timestamp
         IN (IF nearDrainTarget(drainRate, timeElapsed)
               THEN <<[type |-> "battery_777", significance |-> "high"]>>
               ELSE <<>>)
            \o
            (IF drainNegative(drainRate, timeElapsed)
               THEN <<[type |-> "battery_increase", significance |-> "critical"]>>
               ELSE <<>>)
    ELSE <<>>

RECURSIVE Repeat(_, _)
Repeat(q, n) == IF n = 0 THEN <<>> ELSE q \o Repeat(q, n - 1)

NoSample == [channel |-> "none", reading |-> 0, elapsed |-> 0, baseline |-> <<>>,
             attached |-> 0, recorded |-> <<>>]

\* The Sensor Source delivers one magnetometer sample to every attached listener.
MagnetometerSample(data) ==
  /\ listeners.magnetometer > 0
  /\ NotAStop
  /\ LET found == Repeat(magnetometerListener(data, baselineData),
                         listeners.magnetometer)
     IN /\ recordAnomalies(found)
        /\ lastSample' = [channel |-> "magnetometer", reading |-> magnitude(data),
                          elapsed |-> 0, baseline |-> baselineData,
                          attached |-> listeners.magnetometer, recorded |-> found]
  /\ UNCHANGED <<isMonitoring, subscriptions, baselineData, startCalls, scanCalls,
                 scanTimers, listeners, now, baselinesTable, anomaliesTable,
                 scansTable, alerts, lastCall, createdAtStart>>
  /\ UNCHANGED outsideMonitor

\* The Sensor Source delivers one barometer sample to every attached listener.
BarometerSample(data) ==
  /\ listeners.barometer > 0
  /\ NotAStop
  /\ LET found == Repeat(barometerListener(data, baselineData), listeners.barometer)
     IN /\ recordAnomalies(found)
        /\ lastSample' = [channel |-> "barometer", reading |-> data.pressure,
                          elapsed |-> 0, baseline |-> baselineData,
                          attached |-> listeners.barometer, recorded |-> found]
  /\ UNCHANGED <<isMonitoring, subscriptions, baselineData, startCalls, scanCalls,
                 scanTimers, listeners, now, baselinesTable, anomaliesTable,
                 scansTable, alerts, lastCall, createdAtStart>>
  /\ UNCHANGED outsideMonitor

\* The battery level changes and every attached listener is told.
BatterySample(data) ==
  /\ listeners.battery > 0
  /\ NotAStop
  /\ LET found == Repeat(batteryListener(data, baselineData, now), listeners.battery)
     IN /\ recordAnomalies(found)
        /\ lastSample' = [channel |-> "battery", reading |-> data.batteryLevel,
                          elapsed |-> IF baselineData = <<>> THEN 0
                                      ELSE now - baselineData[1].timestamp,
                          baseline |-> baselineData,
                          attached |-> listeners.battery, recorded |-> found]
  /\ UNCHANGED <<isMonitoring, subscriptions, baselineData, startCalls, scanCalls,
                 scanTimers, listeners, now, baselinesTable, anomaliesTable,
                 scansTable, alerts, lastCall, createdAtStart>>
  /\ UNCHANGED outsideMonitor


\* Rules that grade an accuracy of 51 m as "info": not a grade checkLocation()
\* gives.
locationRulesInfo(location, baseline) ==
  (IF Abs(location.coords.accuracy - Tenths(51)) < Tenths(5)
     THEN <<[type |-> "gps_51", significance |-> "info"]>>
     ELSE <<>>)
  \o
  (IF baseline # <<>> /\ Truthy(baseline[1].sensors.gpsAccuracy)
        /\ baseline[1].sensors.gpsAccuracy - location.coords.accuracy > Tenths(28)
     THEN <<[type |-> "gps_enhancement", significance |-> "high"]>>
     ELSE <<>>)

\* The rules of checkLocation() (part_000:294-316): accuracies in tenths of a metre.
locationRules(location, baseline) ==
  (IF Abs(location.coords.accuracy - Tenths(51)) < Tenths(5)
     THEN <<[type |-> "gps_51", significance |-> "medium"]>>
     ELSE <<>>)
  \o
  (IF baseline # <<>> /\ Truthy(baseline[1].sensors.gpsAccuracy)
        /\ baseline[1].sensors.gpsAccuracy - location.coords.accuracy > Tenths(28)
     THEN <<[type |-> "gps_enhancement", significance |-> "high"]>>
     ELSE <<>>)

\* Positions getCurrentPositionAsync() resolves to.
LocationData == {[coords |-> [accuracy |-> Tenths(51)]],
                 [coords |-> [accuracy |-> Tenths(5)]],
                 [coords |-> [accuracy |-> Tenths(20)]]}

\* getCurrentPositionAsync() resolves for a checkLocation() call, which applies
\* its rules and sets its timer (part_000:288-321).
LocationResolves(location) ==
  /\ locationChain.calls > 0
  /\ NotAStop
  /\ LET found == locationRules(location, baselineData)
     IN /\ recordAnomalies(found)
        /\ lastSample' = [channel |-> "location", reading |-> location.coords.accuracy,
                          elapsed |-> 0, baseline |-> baselineData,
                          attached |-> 1, recorded |-> found]
  /\ locationChain' = [calls |-> locationChain.calls - 1,
                       timers |-> locationChain.timers + 1]
  /\ UNCHANGED <<isMonitoring, subscriptions, baselineData, startCalls, scanCalls,
                 scanTimers, listeners, now, baselinesTable, anomaliesTable,
                 scansTable, alerts, lastCall, createdAtStart>>
  /\ UNCHANGED <<bgVars, freqVars, reportVars, lastAnalysis, lastTrend,
                 lastReports, isActive, loops, sideVars>>

\* getCurrentPositionAsync() rejects: the error is logged and the timer is set
\* (part_000:317-321).
LocationRejects ==
  /\ locationChain.calls > 0
  /\ NotAStop
  /\ locationChain' = [calls |-> locationChain.calls - 1,
                       timers |-> locationChain.timers + 1]
  /\ UNCHANGED <<isMonitoring, subscriptions, baselineData, anomalies, startCalls,
                 scanCalls, scanTimers, saveQueue, listeners, now, baselinesTable,
                 anomaliesTable, scansTable, alerts, lastCall, created,
                 createdAtStart, lastSample>>
  /\ UNCHANGED <<bgVars, freqVars, reportVars, lastAnalysis, lastTrend,
                 lastReports, isActive, loops, sideVars>>

\* A timer of checkLocation fires (part_000:320): checkLocation() runs again.
LocationTimerFires ==
  /\ locationChain.timers > 0
  /\ NotAStop
  /\ locationChain' = checkLocationEnter([locationChain EXCEPT !.timers = @ - 1])
  /\ UNCHANGED <<isMonitoring, subscriptions, baselineData, anomalies, startCalls,
                 scanCalls, scanTimers, saveQueue, listeners, now, baselinesTable,
                 anomaliesTable, scansTable, alerts, lastCall, created,
                 createdAtStart, lastSample>>
  /\ UNCHANGED <<bgVars, freqVars, reportVars, lastAnalysis, lastTrend,
                 lastReports, isActive, loops, sideVars>>

-----------------------------------------------------------------------------
(* SensorMonitor: frequency patterns *)

\* The keys of this.frequencyBuffers (part_000:198, 214, 215).
SensorTypes == {"acceleration", "rotation_matter", "rotation_consciousness"}

\* detectFrequencyPattern as called by the accelerometer listener (part_000:198)
\* and by the gyroscope listener (part_000:214-215); targets in thousandths of a Hz.
AccelerometerCalls == <<[targetFreq |-> 1038, sensorType |-> "acceleration"]>>
GyroscopeCalls == <<[targetFreq |-> 962, sensorType |-> "rotation_matter"],
                    [targetFreq |-> 1038, sensorType |-> "rotation_consciousness"]>>

\* The magnitudes the two channels deliver, and the time from one sample to the
\* next event.
FrequencyValues == {0, 1}
SampleIntervals == {500}

\* The magnitude Math.sqrt gives for a sample with a NaN component
\* (part_000:193, 210).
NaN == 0 - 2

\* a > b and a >= b in JavaScript: false when either side is NaN.
greater(a, b) == a # NaN /\ b # NaN /\ a > b
greaterOrEqual(a, b) == a # NaN /\ b # NaN /\ a >= b

\* A peak test that also takes the rise onto a plateau.
isPeakOrPlateau(buffer, i) ==
  /\ greater(buffer[i].value, buffer[i - 1].value)
  /\ greaterOrEqual(buffer[i].value, buffer[i + 1].value)

\* part_000:367-368, with buffer[i] the JavaScript buffer[i - 1].
isPeak(buffer, i) ==
  /\ greater(buffer[i].value, buffer[i - 1].value)
  /\ greater(buffer[i].value, buffer[i + 1].value)

\* findPeaks(buffer) (part_000:365-374): the loop from index i on.
RECURSIVE findPeaksFrom(_, _)
findPeaksFrom(buffer, i) ==
  IF i >= Len(buffer)
    THEN <<>>
    ELSE (IF isPeak(buffer, i) THEN <<buffer[i]>> ELSE <<>>)
           \o findPeaksFrom(buffer, i + 1)

findPeaks(buffer) == findPeaksFrom(buffer, 2)

\* totalPeriod of estimateFrequency (part_000:382-385): the loop from index i on.
RECURSIVE totalPeriodFrom(_, _)
totalPeriodFrom(peaks, i) ==
  IF i > Len(peaks)
    THEN 0
    ELSE peaks[i].timestamp - peaks[i - 1].timestamp + totalPeriodFrom(peaks, i + 1)

\* estimateFrequency(peaks) (part_000:379-389), in Hz as the fraction num / den:
\* 1000 / (totalPeriod / (peaks.length - 1)).
estimateFrequency(peaks) ==
  IF Len(peaks) < 2
    THEN [num |-> 0, den |-> 1]
    ELSE [num |-> 1000 * (Len(peaks) - 1), den |-> totalPeriodFrom(peaks, 2)]

\* A guard that lets a 10-point buffer through.
enoughPointsTen(buffer) == Len(buffer) > 9

\* part_000:346
enoughPoints(buffer) == Len(buffer) > 10

\* Math.abs(frequency - targetFreq) < 0.1 (part_000:350)
nearTarget(frequency, targetFreq) ==
  Abs(1000 * frequency.num - targetFreq * frequency.den) < 100 * frequency.den

\* detectFrequencyPattern(value, targetFreq, sensorType) at time t (part_000:329-360).
\* `buffer` is the array the call pushes to and analyses, `kept` the filtered copy
\* it stores for the next call.
detectFrequencyPattern(value, call, buffers, t) ==
  LET buffer == Append(buffers[call.sensorType], [value |-> value, timestamp |-> t])
      cutoff == t - 10000
      kept == SelectSeq(buffer, LAMBDA item : item.timestamp > cutoff)
      estimated == enoughPoints(buffer)
      peaks == IF estimated THEN findPeaks(buffer) ELSE <<>>
      frequency == IF estimated THEN <<estimateFrequency(peaks)>> ELSE <<>>
  IN [buffers |-> [buffers EXCEPT ![call.sensorType] = kept],
      analysis |-> [sensorType |-> call.sensorType, targetFreq |-> call.targetFreq,
                    buffer |-> buffer, estimated |-> estimated, peaks |-> peaks,
                    frequency |-> frequency,
                    recorded |->
                      IF estimated /\ nearTarget(frequency[1], call.targetFreq)
                        THEN <<[type |-> "frequency_match_" \o call.sensorType,
                                significance |-> "high"]>>
                        ELSE <<>>]]

\* The calls of `calls` made one after the other on the buffers.
RECURSIVE detectAll(_, _, _, _)
detectAll(value, calls, buffers, t) ==
  IF calls = <<>>
    THEN [buffers |-> buffers, analyses |-> <<>>]
    ELSE LET first == detectFrequencyPattern(value, Head(calls), buffers, t)
             rest == detectAll(value, Tail(calls), first.buffers, t)
         IN [buffers |-> rest.buffers, analyses |-> <<first.analysis>> \o rest.analyses]

RECURSIVE recordedBy(_)
recordedBy(analyses) ==
  IF analyses = <<>> THEN <<>>
  ELSE Head(analyses).recorded \o recordedBy(Tail(analyses))

NoInsert == [n |-> 0, analyses |-> <<>>]

\* A sample of magnitude `value` reaches the `attached` listeners of a channel,
\* each making `calls`; the next event comes dt later.
frequencySample(value, calls, attached, dt) ==
  /\ attached > 0
  /\ lastInsert.n < MaxSamples
  /\ NotAStop
  /\ LET run == detectAll(value, Repeat(calls, attached), frequencyBuffers, now)
     IN /\ frequencyBuffers' = run.buffers
        /\ lastInsert' = [n |-> lastInsert.n + 1, analyses |-> run.analyses]
        /\ recordAnomalies(recordedBy(run.analyses))
  /\ now' = now + dt
  /\ UNCHANGED <<isMonitoring, subscriptions, baselineData, startCalls, scanCalls,
                 scanTimers, listeners, baselinesTable, anomaliesTable, scansTable,
                 alerts, lastCall, createdAtStart, lastSample>>
  /\ UNCHANGED <<bgVars, reportVars, lastAnalysis, lastTrend, lastReports,
                 locationChain, isActive, loops, sideVars>>

\* The accelerometer listener (part_000:192-199).
AccelerometerSample(value) ==
  \E dt \in SampleIntervals :
    frequencySample(value, AccelerometerCalls, listeners.accelerometer, dt)

\* The gyroscope listener (part_000:209-216).
GyroscopeSample(value) ==
  \E dt \in SampleIntervals :
    frequencySample(value, GyroscopeCalls, listeners.gyroscope, dt)

-----------------------------------------------------------------------------
(* BackgroundService *)

\* What no method of BackgroundService touches.
outsideBackground == <<isMonitoring, subscriptions, baselineData, anomalies,
                       startCalls, scanCalls, scanTimers, saveQueue, listeners, now,
                       baselinesTable, alerts, lastCall, createdAtStart, lastSample,
                       freqVars, reportVars, lastAnalysis, lastTrend,
                       lastReports,
                 locationChain, isActive, loops, sideVars>>

\* Math.random() in hundredths, and Date.now() % 1000 (BackgroundService.js:183, 212).
RandomPatterns == {5, 50}
LastDigits == {0, 51}

\* detectBackgroundAnomalies(sensorData, isCosmicWindow) (BackgroundService.js:176-230)
detectBackgroundAnomalies(cosmic, t, randomPattern, lastDigits) ==
  (IF cosmic /\ randomPattern < 10
     THEN <<[type |-> "cosmic_background_detection", significance |-> "medium",
             cosmicWindow |-> TRUE, timestamp |-> t]>>
     ELSE <<>>)
  \o
  (IF getHours(t) = 3
     THEN <<[type |-> "cosmic_peak_hour", significance |-> "high",
             cosmicWindow |-> TRUE, timestamp |-> t]>>
     ELSE <<>>)
  \o
  (IF lastDigits = 51 \/ lastDigits = 510 \/ lastDigits = 77
     THEN <<[type |-> "timestamp_pattern", significance |-> "low",
             cosmicWindow |-> cosmic, timestamp |-> t]>>
     ELSE <<>>)

\* The objects of `found` as records of the model: each gets its identity.
identified(found) ==
  [i \in 1..Len(found) |->
     [id |-> created + i, type |-> found[i].type,
      significance |-> found[i].significance, timestamp |-> found[i].timestamp,
      cosmicWindow |-> found[i].cosmicWindow]]

\* executeBackgroundTask(), up to `await DatabaseService.saveScan(scanData)`
\* (BackgroundService.js:76-98).  The awaits before it are on functions that
\* return constants.
BackgroundTaskRuns(randomPattern, lastDigits) ==
  /\ backgroundCall = <<>>
  /\ Len(scansTable) < MaxScans
  /\ LET found == identified(detectBackgroundAnomalies(isCosmicWindow(now), now,
                                                       randomPattern, lastDigits))
     IN /\ created + Len(found) <= MaxAnomalies
        /\ created' = created + Len(found)
        /\ backgroundFound' = backgroundFound \o found
        /\ backgroundCall' =
             <<[pc |-> "saveScan", pending |-> found,
                scanData |-> [timestamp |-> now, anomaly_count |-> Len(found),
                              writer |-> "background",
                              monitoring |-> isMonitoring,
                              state51_active |-> truthyFlag(FALSE),
                              expected |-> IF createdAtStart = Undefined THEN Undefined
                                           ELSE created + Len(found) - createdAtStart]]>>
  /\ NotAStop
  /\ UNCHANGED <<anomaliesTable, scansTable>>
  /\ UNCHANGED outsideBackground

\* The task is over (BackgroundService.js:105-112), or saves its next anomaly
\* (BackgroundService.js:101-103).
backgroundContinue(pending) ==
  IF pending = <<>>
    THEN <<>>
    ELSE <<[backgroundCall[1] EXCEPT !.pc = "saveAnomaly", !.pending = pending]>>

\* saveScan resolves for the background task (BackgroundService.js:98).
BackgroundSaveScanResolves ==
  /\ backgroundCall # <<>>
  /\ backgroundCall[1].pc = "saveScan"
  /\ scansTable' = Append(scansTable,
                          [f \in DOMAIN backgroundCall[1].scanData \cup {"generating"} |->
                             IF f = "generating" THEN isActive
                             ELSE backgroundCall[1].scanData[f]])
  /\ backgroundCall' = backgroundContinue(backgroundCall[1].pending)
  /\ NotAStop
  /\ UNCHANGED <<anomaliesTable, created, backgroundFound>>
  /\ UNCHANGED outsideBackground

\* saveAnomaly resolves for the background task (BackgroundService.js:102).
BackgroundSaveAnomalyResolves ==
  /\ backgroundCall # <<>>
  /\ backgroundCall[1].pc = "saveAnomaly"
  /\ anomaliesTable' = Append(anomaliesTable,
                              anomalyRow(Head(backgroundCall[1].pending)))
  /\ backgroundCall' = backgroundContinue(Tail(backgroundCall[1].pending))
  /\ NotAStop
  /\ UNCHANGED <<scansTable, created, backgroundFound>>
  /\ UNCHANGED outsideBackground

\* saveScan or saveAnomaly rejects: executeBackgroundTask() rethrows
\* (BackgroundService.js:114-117).
BackgroundSaveRejects ==
  /\ backgroundCall # <<>>
  /\ backgroundCall' = <<>>
  /\ NotAStop
  /\ UNCHANGED <<anomaliesTable, scansTable, created, backgroundFound>>
  /\ UNCHANGED outsideBackground

-----------------------------------------------------------------------------
(* State51Generator *)

\* The signals the generator drives, one generate...() loop each
\* (State51Generator.js:40-45).
Modalities == {"audio", "visual", "haptic", "electromagnetic"}

\* The loops after startGeneration() (State51Generator.js:34-45): none is
\* started while isActive; otherwise each generate...() is called and runs up to
\* its first await, inside its try block.
startLoops(active, running) ==
  IF active THEN running ELSE [modality \in Modalities |-> running[modality] + 1]

\* startGeneration(), up to its await (State51Generator.js:33-45).
StartGeneration ==
  /\ isActive \/ \A modality \in Modalities : loops[modality] < MaxLoops
  /\ IF isActive THEN UNCHANGED isActive ELSE isActive' = TRUE
  /\ loops' = startLoops(isActive, loops)
  /\ NotAStop
  /\ UNCHANGED <<isMonitoring, subscriptions, baselineData, anomalies, startCalls,
                 scanCalls, scanTimers, saveQueue, listeners, now, baselinesTable,
                 anomaliesTable, scansTable, alerts, lastCall, created,
                 createdAtStart, lastSample>>
  /\ UNCHANGED <<bgVars, freqVars, reportVars, lastAnalysis, lastTrend,
                 lastReports, locationChain, sideVars>>

\* stopGeneration(), up to its first await (State51Generator.js:50-56).  No loop
\* is told to return: each goes on to the end of its sleep.
StopGeneration ==
  /\ isActive' = FALSE
  /\ NotAStop
  /\ UNCHANGED <<isMonitoring, subscriptions, baselineData, anomalies, startCalls,
                 scanCalls, scanTimers, saveQueue, listeners, now, baselinesTable,
                 anomaliesTable, scansTable, alerts, lastCall, created,
                 createdAtStart, lastSample>>
  /\ UNCHANGED <<bgVars, freqVars, reportVars, lastAnalysis, lastTrend,
                 lastReports, locationChain, loops, sideVars>>

\* The sleep of a loop ends and `while (this.isActive)` is evaluated
\* (State51Generator.js:80, 106; 124, 135; 147, 159; 175, 182): the loop returns
\* when isActive is false.  When it is true the loop goes round once more,
\* which changes none of the variables; the break of the inner loop
\* (State51Generator.js:82, 127, 150) leads to the same sleep.
GenerationLoopReturns(modality) ==
  /\ loops[modality] > 0
  /\ ~isActive
  /\ loops' = [loops EXCEPT ![modality] = @ - 1]
  /\ NotAStop
  /\ UNCHANGED <<isMonitoring, subscriptions, baselineData, anomalies, startCalls,
                 scanCalls, scanTimers, saveQueue, listeners, now, baselinesTable,
                 anomaliesTable, scansTable, alerts, lastCall, created,
                 createdAtStart, lastSample>>
  /\ UNCHANGED <<bgVars, freqVars, reportVars, lastAnalysis, lastTrend,
                 lastReports, locationChain, isActive, sideVars>>

\* The modalities whose loop awaits a call of the platform
\* (State51Generator.js:86-94, 118-134, 153).
PlatformModalities == {"audio", "visual", "haptic"}

\* A call of the platform rejects, or the brightness permission is not granted:
\* the loop ends in its catch block or returns (State51Generator.js:108-110,
\* 119-122, 137-139, 161-163).
GenerationLoopFails(modality) ==
  /\ modality \in PlatformModalities
  /\ loops[modality] > 0
  /\ loops' = [loops EXCEPT ![modality] = @ - 1]
  /\ NotAStop
  /\ UNCHANGED <<isMonitoring, subscriptions, baselineData, anomalies, startCalls,
                 scanCalls, scanTimers, saveQueue, listeners, now, baselinesTable,
                 anomaliesTable, scansTable, alerts, lastCall, created,
                 createdAtStart, lastSample>>
  /\ UNCHANGED <<bgVars, freqVars, reportVars, lastAnalysis, lastTrend,
                 lastReports, locationChain, isActive, sideVars>>

-----------------------------------------------------------------------------
(* DatabaseService: the daily report *)

Day == 24 * Hour
Minute == 60000

\* a / b of two counts: NaN for 0 / 0 (b is never 0 otherwise).
ratio(a, b) == [nan |-> b = 0, num |-> a, den |-> b]

\* ratio > tenths / 10; a comparison with NaN is false.
ratioAbove(r, tenths) == ~r.nan /\ 10 * r.num > tenths * r.den

\* date.toISOString().split('T')[0] (part_002:281): the calendar day of the
\* instant, as a day number.  The device's clock is on UTC throughout the model
\* (getHours above), so setHours(0, 0, 0, 0) is the start of the same day.
toISODate(t) == t \div Day

\* part_002:270-273
startOfDay(t) == (t \div Day) * Day
endOfDay(t) == startOfDay(t) + Day - 1

\* The types of the model that include '51', 'battery', 'magnetic', 'frequency'
\* (part_002:285-288).
TypesWith51 == {"magnetic_51", "gps_51"}
TypesWithBattery == {"battery_777", "battery_increase"}
TypesWithMagnetic == {"magnetic_anomaly", "magnetic_51"}
TypesWithFrequency == {"frequency_match_" \o sensorType : sensorType \in SensorTypes}

\* A read that returns the whole table, whatever the window.
rowsOfTable(table, startTime, endTime) == table

\* getAnomalies / getScans (part_002:175-206): the rows of the window.  The sort
\* order is of no account to the report.
rowsBetween(table, startTime, endTime) ==
  SelectSeq(table, LAMBDA row : row.timestamp >= startTime /\ row.timestamp <= endTime)

\* The first scan within a minute of the anomaly, flagged or not: <<>> when
\* scans.find(...) returns undefined (part_002:306).
nearestFound(a, scans) ==
  LET near == SelectSeq(scans, LAMBDA scan : Abs(scan.timestamp - a.timestamp) < Minute)
  IN IF near = <<>> THEN <<>> ELSE <<Head(near)>>

\* report.state51Effect (part_002:302-315) from the anomaly rows and the scan
\* rows of the day, the latter in the order getScans returns them.  anomalyRate
\* is the quotient of two counts; it is 0 = 0 / 1 without a flagged scan.
state51Effect(rows, scans) ==
  LET state51ActiveScans == SelectSeq(scans, LAMBDA scan : scan.state51_active = 1)
      matched == SelectSeq(rows, LAMBDA a :
                   /\ nearestFound(a, scans) # <<>>
                   /\ nearestFound(a, scans)[1].state51_active = 1)
      state51AnomalyRate ==
        IF Len(state51ActiveScans) > 0
          THEN ratio(Len(matched), Len(state51ActiveScans))
          ELSE ratio(0, 1)
  IN [activePeriods |-> Len(state51ActiveScans),
      anomalyRate |-> state51AnomalyRate,
      correlation |-> IF ratioAbove(state51AnomalyRate, 1) THEN "positive" ELSE "none"]

\* The report generateDailyReport builds from the rows it has read
\* (part_002:279-334).  The trends are computed from sensor readings, which the
\* scan rows of the model do not carry; of report.trends the model keeps
\* scanCount.
buildReport(date, rows, scans) ==
  LET total == Len(rows)
      cosmic == Len(SelectSeq(rows, LAMBDA a : a.cosmic_window = 1))
      correlations == Len(SelectSeq(rows, LAMBDA a : a.type \in TypesWith51))
      battery == Len(SelectSeq(rows, LAMBDA a : a.type \in TypesWithBattery))
      frequency == Len(SelectSeq(rows, LAMBDA a : a.type \in TypesWithFrequency))
  IN [date |-> toISODate(date),
      totalAnomalies |-> total,
      highSignificance |-> Len(SelectSeq(rows, LAMBDA a : needsAlert(a))),
      cosmicWindowAnomalies |-> cosmic,
      state51Correlations |-> correlations,
      batteryAnomalies |-> battery,
      magneticAnomalies |-> Len(SelectSeq(rows, LAMBDA a : a.type \in TypesWithMagnetic)),
      frequencyMatches |-> frequency,
      scanCount |-> IF Len(scans) > 0 THEN Len(scans) ELSE Undefined,
      state51Effect |-> state51Effect(rows, scans),
      keyFindings |->
        (IF correlations > 5 THEN <<"Multiple State 51 resonances detected">> ELSE <<>>)
        \o (IF total > 0 /\ 2 * cosmic > total
              THEN <<"High cosmic window correlation">> ELSE <<>>)
        \o (IF battery > 0 THEN <<"Battery anomalies detected">> ELSE <<>>)
        \o (IF frequency > 0 THEN <<"Quantum frequency matches found">> ELSE <<>>)]

\* The offsets of local time from UTC the device may be set to, in
\* milliseconds east of Greenwich: New York (winter), UTC and Athens (winter).
TimeZoneOffsets == {0 - 5 * Hour, 0, 2 * Hour}

\* The instants a report is asked at: every hour of two days.
WindowTimes == {k * Hour : k \in 24..71}

\* date.getHours() on a device at the offset (BackgroundService.js:106-107).
getHoursAt(t, offset) == ((t + offset) \div Hour) % 24

\* new Date(date).setHours(0, 0, 0, 0) and setHours(23, 59, 59, 999) on a device
\* at the offset (part_002:270-273): midnight of the local day of the instant,
\* and the last millisecond of that day.
startOfDayAt(t, offset) == ((t + offset) \div Day) * Day - offset
endOfDayAt(t, offset) == startOfDayAt(t, offset) + Day - 1

\* The window and the key generateDailyReport(date) works with on a device at
\* the offset (part_002:270-281); toISOString() is in UTC whatever the offset.
dayWindow(date, offset) ==
  [startOfDay |-> startOfDayAt(date, offset),
   endOfDay |-> endOfDayAt(date, offset),
   date |-> toISODate(date)]

\* What none of the window computations touches.
outsideWindow == <<isMonitoring, subscriptions, baselineData, anomalies, startCalls,
                   scanCalls, scanTimers, saveQueue, listeners, now, baselinesTable,
                   anomaliesTable, scansTable, alerts, lastCall, created,
                   createdAtStart, lastSample, bgVars, freqVars, reportVars,
                   lastAnalysis, lastTrend, lastReports, locationChain, isActive,
                   loops, localStorage, queued, lastEffect, lastFlags>>

\* The analysis screen asks for today's report at the instant t
\* (AnalysisScreen.js:1064-1067; part_002:270-281).
ScreenReportWindow(t, offset) ==
  /\ lastWindow' = <<[caller |-> "screen", calledAt |-> t, offset |-> offset,
                      window |-> dayWindow(t, offset)]>>
  /\ NotAStop
  /\ UNCHANGED outsideWindow

\* The background task runs in the first two minutes after local midnight and
\* asks for yesterday's report (BackgroundService.js:106-109, 237-240;
\* part_002:270-281).  setDate(getDate() - 1) keeps the local time of day.
MidnightReportWindow(t, offset) ==
  /\ getHoursAt(t, offset) = 0
  /\ lastWindow' = <<[caller |-> "midnight", calledAt |-> t, offset |-> offset,
                      window |-> dayWindow(t - Day, offset)]>>
  /\ NotAStop
  /\ UNCHANGED outsideWindow

\* The times of the rows the effect is computed from: three instants half a
\* minute apart; scans are a minute apart (part_000:449).
EffectTimes == {StartOfRun, StartOfRun + 30000, StartOfRun + Minute}

\* What getScans(startOfDay, endOfDay) can return (part_002:193-206): rows in
\* ascending order of timestamp, of which the effect reads timestamp and
\* state51_active, an INTEGER column (part_002:83).
EffectScans ==
  {scans \in UNION {[1..n -> [timestamp : EffectTimes, state51_active : {0, 1}]] :
                      n \in 0..MaxEffectRows} :
     \A i \in 1..Len(scans) - 1 : scans[i].timestamp <= scans[i + 1].timestamp}

\* What getAnomalies(startOfDay, endOfDay) can return (part_002:175-188), of
\* which the effect reads timestamp.
EffectAnomalies ==
  UNION {[1..n -> [timestamp : EffectTimes]] : n \in 0..MaxEffectRows}

\* generateDailyReport computes report.state51Effect from the rows it has read
\* (part_002:302-315).
ComputeState51Effect(rows, scans) ==
  /\ lastEffect' = <<[anomalies |-> rows, scans |-> scans,
                      effect |-> state51Effect(rows, scans)]>>
  /\ NotAStop
  /\ UNCHANGED <<isMonitoring, subscriptions, baselineData, anomalies, startCalls,
                 scanCalls, scanTimers, saveQueue, listeners, now, baselinesTable,
                 anomaliesTable, scansTable, alerts, lastCall, created,
                 createdAtStart, lastSample>>
  /\ UNCHANGED <<bgVars, freqVars, reportVars, lastAnalysis, lastTrend,
                 lastReports, locationChain, isActive, loops>>
  /\ UNCHANGED <<localStorage, queued, lastWindow, lastFlags>>

\* The row of daily_reports a report is written to (part_002:355-365).
reportRow(report) ==
  [date |-> report.date,
   total_anomalies |-> report.totalAnomalies,
   high_significance_count |-> report.highSignificance,
   cosmic_window_anomalies |-> report.cosmicWindowAnomalies,
   state51_correlations |-> report.state51Correlations,
   battery_anomalies |-> report.batteryAnomalies,
   magnetic_anomalies |-> report.magneticAnomalies,
   frequency_matches |-> report.frequencyMatches,
   report_data |-> report]

\* INSERT INTO daily_reports, were the date column not UNIQUE.
saveDailyReportInsert(table, report) == Append(table, reportRow(report))

\* saveDailyReport(report) (part_002:345-371) on the table of part_002:62-75:
\* INSERT OR REPLACE deletes the row that holds the UNIQUE date, then inserts.
saveDailyReport(table, report) ==
  Append(SelectSeq(table, LAMBDA row : row.date # report.date), reportRow(report))

\* What none of the steps of generateDailyReport touches.
outsideReport == <<isMonitoring, subscriptions, baselineData, anomalies, startCalls,
                   scanCalls, scanTimers, saveQueue, listeners, now, baselinesTable,
                   anomaliesTable, scansTable, alerts, lastCall, created,
                   createdAtStart, lastSample, bgVars, freqVars, lastAnalysis,
                   lastTrend, lastReports,
                 locationChain, isActive, loops, sideVars>>

\* The time a report is asked for: today by the analysis screen
\* (AnalysisScreen.js:1067), yesterday by the background task at midnight
\* (BackgroundService.js:237-240).
ReportDates == {now, now - Day}

\* generateDailyReport(date), up to `await this.getAnomalies(...)`
\* (part_002:269-275).  The database runs its transactions in the order they were
\* queued, so reportQueue is in the order of the calls' pending transactions.
GenerateDailyReport(date) ==
  /\ Len(generated) + Len(reportQueue) < MaxReports
  /\ reportQueue' = Append(reportQueue,
                           [call |-> Len(generated) + Len(reportQueue) + 1,
                            pc |-> "getAnomalies", date |-> date,
                            rows |-> <<>>, tableRead |-> Undefined,
                            report |-> <<>>])
  /\ NotAStop
  /\ UNCHANGED <<dailyReportsTable, generated>>
  /\ UNCHANGED outsideReport

\* getAnomalies resolves (part_002:275); the call goes on to getScans
\* (part_002:276).  tableRead is history: the number of rows the table held.
ReportReadsAnomalies ==
  /\ reportQueue # <<>>
  /\ Head(reportQueue).pc = "getAnomalies"
  /\ reportQueue' =
       Append(Tail(reportQueue),
              [Head(reportQueue) EXCEPT
                 !.pc = "getScans",
                 !.tableRead = Len(anomaliesTable),
                 !.rows = rowsBetween(anomaliesTable, startOfDay(Head(reportQueue).date),
                                      endOfDay(Head(reportQueue).date))])
  /\ NotAStop
  /\ UNCHANGED <<dailyReportsTable, generated>>
  /\ UNCHANGED outsideReport

\* getScans resolves (part_002:276); the report is built and its write queued
\* (part_002:279-337).
ReportReadsScans ==
  /\ reportQueue # <<>>
  /\ Head(reportQueue).pc = "getScans"
  /\ LET call == Head(reportQueue)
         scans == rowsBetween(scansTable, startOfDay(call.date), endOfDay(call.date))
     IN reportQueue' =
          Append(Tail(reportQueue),
                 [call EXCEPT !.pc = "saveDailyReport",
                              !.report = <<buildReport(call.date, call.rows, scans)>>])
  /\ NotAStop
  /\ UNCHANGED <<dailyReportsTable, generated>>
  /\ UNCHANGED outsideReport

\* saveDailyReport resolves (part_002:337-339).
SaveDailyReportResolves ==
  /\ reportQueue # <<>>
  /\ Head(reportQueue).pc = "saveDailyReport"
  /\ dailyReportsTable' = saveDailyReport(dailyReportsTable, Head(reportQueue).report[1])
  /\ generated' = Append(generated, [call |-> Head(reportQueue).call,
                                     report |-> Head(reportQueue).report,
                                     date |-> toISODate(Head(reportQueue).date),
                                     outcome |-> "saved"])
  /\ reportQueue' = Tail(reportQueue)
  /\ NotAStop
  /\ UNCHANGED outsideReport

\* A read or the write rejects: generateDailyReport rejects at its await.
ReportRejects ==
  /\ reportQueue # <<>>
  /\ generated' = Append(generated, [call |-> Head(reportQueue).call,
                                     report |-> Head(reportQueue).report,
                                     date |-> toISODate(Head(reportQueue).date),
                                     outcome |-> "failed"])
  /\ reportQueue' = Tail(reportQueue)
  /\ NotAStop
  /\ UNCHANGED dailyReportsTable
  /\ UNCHANGED outsideReport

-----------------------------------------------------------------------------
(* DatabaseService.analyzePatterns and the hourly analysis of the monitor *)

\* A spike at twice the hourly average as well as above it.
anomalySpikeOrEqual(recentCount, dailyCount) == 12 * recentCount >= dailyCount

\* recentAnomalies.length > dailyAnomalies.length / 24 * 2 (part_002:232).  The
\* quotient is rounded to a double, the doubling is exact; a count of n / 12 that
\* is not whole is at least 1 / 12 away from every whole number, far more than
\* the rounding, and n / 24 is exact when n is a multiple of 12.
anomalySpike(recentCount, dailyCount) == 12 * recentCount > dailyCount

\* What analyzePatterns() returns from the count of the rows of the last hour
\* and the rows of the last day (part_002:220-263).  state51Count and
\* mutationCount are computed from the value column, which the rows of the model
\* do not carry.
patternsOf(recentCount, daily) ==
  LET cosmicTrue == Len(SelectSeq(daily, LAMBDA a : a.cosmic_window = 1))
      cosmicFalse == Len(SelectSeq(daily, LAMBDA a : a.cosmic_window # 1))
      cosmicCorrelation == ratio(cosmicTrue, cosmicTrue + cosmicFalse)
  IN [anomalyCount |-> Len(daily),
      recentCount |-> recentCount,
      anomalySpike |-> anomalySpike(recentCount, Len(daily)),
      cosmicCorrelation |-> cosmicCorrelation,
      typeDistribution |->
        [type \in {daily[k].type : k \in 1..Len(daily)} |->
           Len(SelectSeq(daily, LAMBDA a : a.type = type))],
      significanceDistribution |->
        [significance \in {"high", "medium", "low", "critical"} |->
           Len(SelectSeq(daily, LAMBDA a : a.significance = significance))],
      patterns |-> [hasCosmicCorrelation |-> ratioAbove(cosmicCorrelation, 5)]]

\* The types of the model that include '777' (part_002:246).
TypesWith777 == {"battery_777"}

\* The filter of part_002:243-247 without its test of the type.
mutationPatternsByValue(daily) ==
  SelectSeq(daily, LAMBDA a : Abs(a.value - 77) < 1 \/ Abs(a.value - 7700) < 100)

\* state51Patterns and mutationPatterns (part_002:235-247), on rows whose value
\* is in thousandths.
state51Patterns(daily) ==
  SelectSeq(daily, LAMBDA a : \/ a.type \in TypesWith51
                              \/ Abs(a.value - 51000) < 1000
                              \/ Abs(a.value - 510) < 10)
mutationPatterns(daily) ==
  SelectSeq(daily, LAMBDA a : \/ Abs(a.value - 77) < 1
                              \/ Abs(a.value - 7700) < 100
                              \/ a.type \in TypesWith777)

\* state51Count, mutationCount and the flags derived from them
\* (part_002:256-260).
patternFlags(daily) ==
  [state51Count |-> Len(state51Patterns(daily)),
   mutationCount |-> Len(mutationPatterns(daily)),
   hasState51 |-> Len(state51Patterns(daily)) > 0,
   hasMutation |-> Len(mutationPatterns(daily)) > 0]

\* Rows of the anomalies table as analyzePatterns() reads them: a type of the
\* monitor, a value in thousandths (0.000, 0.077, 0.510, 7.700, 40.000, 50.500)
\* and the cosmic_window column.
PatternRows ==
  [type : {"magnetic_51", "gps_51", "battery_777", "magnetic_anomaly", "pressure_anomaly"},
   value : {0, 77, 510, 7700, 40000, 50500},
   significance : {"high"},
   cosmic_window : {0, 1}]

\* What getAnomalies(oneDayAgo, now) can return (part_002:218): a few rows of
\* any kind, or many rows of one kind.
DailyRows ==
  UNION {[1..n -> PatternRows] : n \in 0..MaxPatternRows}
  \cup {Repeat(<<[type |-> "pressure_anomaly", value |-> 0, significance |-> "high",
                  cosmic_window |-> 0]>>, n) : n \in 0..MaxDailyRows}

\* analyzePatterns() on the rows of the last day, of which the newest
\* recentCount are of the last hour (part_002:211-263); one analysis is
\* followed.
AnalyzePatterns(recentCount, daily) ==
  /\ lastFlags = <<>>
  /\ recentCount <= Len(daily)
  /\ lastAnalysis' = <<patternsOf(recentCount, daily)>>
  /\ lastFlags' = <<[daily |-> daily, flags |-> patternFlags(daily)]>>
  /\ NotAStop
  /\ UNCHANGED <<isMonitoring, subscriptions, baselineData, anomalies, startCalls,
                 scanCalls, scanTimers, saveQueue, listeners, now, baselinesTable,
                 anomaliesTable, scansTable, alerts, lastCall, created,
                 createdAtStart, lastSample>>
  /\ UNCHANGED <<bgVars, freqVars, reportVars, lastTrend, lastReports,
                 locationChain, isActive, loops>>
  /\ UNCHANGED <<localStorage, queued, lastEffect, lastWindow>>

\* analyzeHourlyPatterns() on what analyzePatterns() returned (part_000:461-477).
hourlyAnomalies(patterns) ==
  (IF patterns.anomalySpike
     THEN <<[type |-> "pattern_spike", significance |-> "high"]>>
     ELSE <<>>)
  \o
  (IF ratioAbove(patterns.cosmicCorrelation, 7)
     THEN <<[type |-> "cosmic_correlation", significance |-> "critical"]>>
     ELSE <<>>)

\* analyzePatterns(): the read of the last hour resolves (part_002:217), the read
\* of the last day is queued (part_002:218).
AnalyzeReadsRecent(i) ==
  /\ scanCalls[i].pc = "recent"
  /\ NotAStop
  /\ scanCalls' =
       [scanCalls EXCEPT
          ![i].pc = "daily",
          ![i].recentCount = Len(rowsBetween(anomaliesTable,
                                             scanCalls[i].analysisAt - Hour,
                                             scanCalls[i].analysisAt))]
  /\ UNCHANGED <<isMonitoring, subscriptions, baselineData, anomalies, startCalls,
                 scanTimers, saveQueue, listeners, now, baselinesTable,
                 anomaliesTable, scansTable, alerts, lastCall, created,
                 createdAtStart, lastSample>>
  /\ UNCHANGED outsideMonitor

\* The read of the last day resolves: analyzePatterns() returns, the hourly
\* analysis records what it finds without awaiting, and scan() schedules the
\* next scan (part_002:218-263, part_000:461-477, 449).
AnalyzeReadsDaily(i) ==
  /\ scanCalls[i].pc = "daily"
  /\ NotAStop
  /\ LET patterns == patternsOf(scanCalls[i].recentCount,
                                rowsBetween(anomaliesTable,
                                            scanCalls[i].analysisAt - Day,
                                            scanCalls[i].analysisAt))
     IN /\ lastAnalysis' = <<patterns>>
        /\ recordAnomalies(hourlyAnomalies(patterns))
  /\ scanCalls' = RemoveAt(scanCalls, i)
  /\ scanTimers' = scanTimers + 1
  /\ UNCHANGED <<isMonitoring, subscriptions, baselineData, startCalls, listeners,
                 now, baselinesTable, anomaliesTable, scansTable, alerts, lastCall,
                 createdAtStart, lastSample>>
  /\ UNCHANGED <<bgVars, freqVars, reportVars, lastTrend, lastReports,
                 locationChain, isActive, loops, sideVars>>

\* A read of analyzePatterns() rejects: analyzeHourlyPatterns() and scan() reject
\* before the next scan is scheduled.
AnalyzePatternsRejects(i) ==
  /\ scanCalls[i].pc \in {"recent", "daily"}
  /\ NotAStop
  /\ scanCalls' = RemoveAt(scanCalls, i)
  /\ UNCHANGED <<isMonitoring, subscriptions, baselineData, anomalies, startCalls,
                 scanTimers, saveQueue, listeners, now, baselinesTable,
                 anomaliesTable, scansTable, alerts, lastCall, created,
                 createdAtStart, lastSample>>
  /\ UNCHANGED outsideMonitor

-----------------------------------------------------------------------------
(* DatabaseService.calculateTrend *)

\* The readings of a series: battery_level or magnetic_field of the scan rows,
\* 0 where the reading was missing (part_002:292-293, 153-157).
TrendValues == {0, 10, 20, 1000, 1005}

\* values.reduce((a, b) => a + b, 0)
RECURSIVE Sum(_)
Sum(values) == IF values = <<>> THEN 0 ELSE Head(values) + Sum(Tail(values))

\* A split that gives the odd value to the first half.
halfLengthUp(n) == (n + 1) \div 2

\* Math.floor(values.length / 2) (part_002:403-404)
halfLength(n) == n \div 2

\* Math.abs(percentChange).toFixed(1) for percentChange = num / den, den > 0: the
\* percentage in tenths, rounded to the nearest.
toFixed1(num, den) == (20 * Abs(num) + den) \div (2 * den)

\* calculateTrend(values) (part_002:400-415).  The label is its direction and the
\* percentage printed in it, in tenths; finite is FALSE when the percentage
\* printed is NaN or Infinity.  With firstAvg = sumA / nA and secondAvg =
\* sumB / nB, percentChange = 100 * (sumB * nA - sumA * nB) / (nB * sumA); with
\* sumA = 0 it is NaN for a change of 0, which fails both comparisons, and
\* Infinity for a change above 0.  The readings are never negative.
calculateTrend(values) ==
  IF Len(values) < 2
    THEN [direction |-> "stable", finite |-> TRUE, tenths |-> 0]
    ELSE LET nA == halfLength(Len(values))
             nB == Len(values) - nA
             sumA == Sum(SubSeq(values, 1, nA))
             sumB == Sum(SubSeq(values, nA + 1, Len(values)))
             num == 100 * (sumB * nA - sumA * nB)
             den == nB * sumA
         IN IF sumA = 0
              THEN [direction |-> IF sumB > 0 THEN "increasing" ELSE "decreasing",
                    finite |-> FALSE, tenths |-> 0]
              ELSE IF Abs(num) < den
                     THEN [direction |-> "stable", finite |-> TRUE, tenths |-> 0]
                     ELSE [direction |-> IF num > 0 THEN "increasing" ELSE "decreasing",
                           finite |-> TRUE, tenths |-> toFixed1(num, den)]

NoTrend == [values |-> <<>>, result |-> calculateTrend(<<>>)]

\* One more scan row is in the window and the trend of the series is computed
\* (part_002:291-293).
CalculateTrend(value) ==
  /\ Len(lastTrend.values) < MaxSeries
  /\ lastTrend' = [values |-> Append(lastTrend.values, value),
                   result |-> calculateTrend(Append(lastTrend.values, value))]
  /\ NotAStop
  /\ UNCHANGED <<isMonitoring, subscriptions, baselineData, anomalies, startCalls,
                 scanCalls, scanTimers, saveQueue, listeners, now, baselinesTable,
                 anomaliesTable, scansTable, alerts, lastCall, created,
                 createdAtStart, lastSample>>
  /\ UNCHANGED <<bgVars, freqVars, reportVars, lastAnalysis, lastReports,
                 locationChain, isActive, loops, sideVars>>

-----------------------------------------------------------------------------
(* The service worker: anomalies queued for background sync (part_003) *)

ProcessedCap == 1000

\* The anomalies the worker is handed: event.data.anomaly of a QUEUE_ANOMALY
\* message, which is whatever the page posts, with a type (<<type>>) or without
\* one (<<>>) (part_003:499-501), and the worker's own cosmicAnomaly
\* (part_003:533-542).
MessageTypes == {<<"magnetic_51">>, <<>>}
CosmicAnomalyType == <<"cosmic_background_sw">>

\* What none of the worker's handlers touches.
outsideWorker == <<isMonitoring, subscriptions, baselineData, anomalies, startCalls,
                   scanCalls, scanTimers, saveQueue, listeners, now, baselinesTable,
                   anomaliesTable, scansTable, alerts, lastCall, created,
                   createdAtStart, lastSample, bgVars, freqVars, reportVars,
                   lastAnalysis, lastTrend, lastReports, locationChain, isActive,
                   loops, lastEffect, lastWindow, lastFlags>>

\* queueAnomalyForSync(anomaly) (part_003:505-523): the anomaly is pushed onto
\* the parsed pendingAnomalies and the list is written back.  id is history: the
\* number of the call.
queueAnomalyForSync(storage, type, id) ==
  [storage EXCEPT !.pendingAnomalies = Append(@, [id |-> id, type |-> type])]

\* analyzeAnomalyPattern(anomaly) raises (part_003:450): `anomaly.type.includes`
\* of an anomaly without a type is a TypeError.
analyzeRaises(anomaly) == anomaly.type = <<>>

\* storeProcessedAnomaly(anomaly) (part_003:470-484): push, then keep the last
\* 1000.
storeProcessedAnomaly(stored, anomaly) ==
  LET pushed == Append(stored, anomaly)
  IN IF Len(pushed) > ProcessedCap
       THEN SubSeq(pushed, Len(pushed) - ProcessedCap + 1, Len(pushed))
       ELSE pushed

\* processBackgroundAnomaly(anomaly) (part_003:427-439) on the processed list:
\* whatever the analysis or the store raises is caught and logged, and the
\* anomaly is not stored.  The store raises for the ids of `failing` (setItem
\* throws when the storage is full, part_003:481).
processBackgroundAnomaly(stored, anomaly, failing) ==
  IF analyzeRaises(anomaly) \/ anomaly.id \in failing
    THEN stored
    ELSE storeProcessedAnomaly(stored, [id |-> anomaly.id, type |-> anomaly.type,
                                        backgroundProcessed |-> TRUE])

\* for (const anomaly of pendingData) await processBackgroundAnomaly(anomaly)
\* (part_003:403-405)
RECURSIVE processEach(_, _, _)
processEach(stored, pendingData, failing) ==
  IF pendingData = <<>>
    THEN stored
    ELSE processEach(processBackgroundAnomaly(stored, Head(pendingData), failing),
                     Tail(pendingData), failing)

\* syncAnomalyData() (part_003:392-415) on the storage: the pending anomalies
\* are read and processed, then the key pendingAnomalies is removed
\* (part_003:487-489).
syncAnomalyData(storage, failing) ==
  IF Len(storage.pendingAnomalies) > 0
    THEN [pendingAnomalies |-> <<>>,
          processedAnomalies |->
            processEach(storage.processedAnomalies, storage.pendingAnomalies, failing)]
    ELSE storage

\* The page posts QUEUE_ANOMALY (part_003:492-502).
QueueAnomalyMessage(type) ==
  /\ queued < MaxQueued
  /\ localStorage' = queueAnomalyForSync(localStorage, type, queued + 1)
  /\ queued' = queued + 1
  /\ NotAStop
  /\ UNCHANGED outsideWorker

\* The worker's interval fires inside the cosmic window (part_003:526-544).
CosmicIntervalFires ==
  /\ queued < MaxQueued
  /\ getHours(now) >= 3 /\ getHours(now) < 4
  /\ localStorage' = queueAnomalyForSync(localStorage, CosmicAnomalyType, queued + 1)
  /\ queued' = queued + 1
  /\ NotAStop
  /\ UNCHANGED outsideWorker

\* The sync event 'anomaly-sync' (part_003:381-389).  Every promise
\* syncAnomalyData() awaits is settled when it is created (part_003:419-423,
\* 471-483), so the call runs to its end in one chain of microtasks: no message,
\* interval or other sync event is handled in between.
SyncEvent(failing) ==
  /\ localStorage' = syncAnomalyData(localStorage, failing)
  /\ NotAStop
  /\ UNCHANGED queued
  /\ UNCHANGED outsideWorker

-----------------------------------------------------------------------------
(* The monitoring session *)

Init ==
  /\ isMonitoring = FALSE
  /\ subscriptions = <<>>
  /\ baselineData = <<>>
  /\ anomalies = <<>>
  /\ startCalls = [permissions |-> 0, establish |-> 0, saveBaseline |-> <<>>]
  /\ scanCalls = <<>>
  /\ scanTimers = 0
  /\ saveQueue = <<>>
  /\ listeners = NoListeners
  /\ now = StartOfRun
  /\ baselinesTable = <<>>
  /\ anomaliesTable = <<>>
  /\ scansTable = <<>>
  /\ alerts = <<>>
  /\ backgroundCall = <<>>
  /\ lastCall = "none"
  /\ stopsInARow = 0
  /\ created = 0
  /\ createdAtStart = Undefined
  /\ backgroundFound = <<>>
  /\ lastSample = NoSample
  /\ frequencyBuffers = [sensorType \in SensorTypes |-> <<>>]
  /\ lastInsert = NoInsert
  /\ dailyReportsTable = <<>>
  /\ reportQueue = <<>>
  /\ generated = <<>>
  /\ lastAnalysis = <<>>
  /\ lastTrend = NoTrend
  /\ lastReports = <<>>
  /\ locationChain = [calls |-> 0, timers |-> 0]
  /\ isActive = FALSE
  /\ loops = [modality \in Modalities |-> 0]
  /\ localStorage = [pendingAnomalies |-> <<>>, processedAnomalies |-> <<>>]
  /\ queued = 0
  /\ lastEffect = <<>>
  /\ lastWindow = <<>>
  /\ lastFlags = <<>>

\* The snapshots of the life cycle: the magnetometer raises or reports, the
\* barometer has no sample yet or reports, the other channels have no sample yet.
LifeCycleReports ==
  {reports \in SnapshotReports :
     /\ reports.magnetometer # [raises |-> FALSE, data |-> <<>>]
     /\ ~reports.barometer.raises
     /\ \A c \in {"accelerometer", "gyroscope", "location"} :
          reports[c] = [raises |-> FALSE, data |-> <<>>]}

\* The life cycle of the monitor: every start and stop, every way the awaited
\* calls of startMonitoring() and scan() can settle.  The Sensor Source delivers
\* no sample, no position is to be had and the clock stands still.
Next ==
  \/ StartMonitoring
  \/ PermissionsSettle
  \/ (EstablishBaselineReads /\ lastReports'[1] \in LifeCycleReports)
  \/ EstablishBaselineFails
  \/ SaveBaselineResolves
  \/ SaveBaselineRejects
  \/ StopMonitoring
  \/ \E i \in 1..Len(scanCalls) : ScanReadsSettle(i)
  \/ \E i \in 1..Len(scanCalls) : ScanReadsFail(i)
  \/ \E i \in 1..Len(scanCalls) : SaveScanResolves(i)
  \/ \E i \in 1..Len(scanCalls) : SaveScanRejects(i)
  \/ \E i \in 1..Len(scanCalls) : AnalyzeReadsRecent(i)
  \/ \E i \in 1..Len(scanCalls) : AnalyzeReadsDaily(i)
  \/ \E i \in 1..Len(scanCalls) : AnalyzePatternsRejects(i)
  \/ ScanTimerFires
  \/ LocationRejects
  \/ LocationTimerFires

Spec == Init /\ [][Next]_vars

\* Rule evaluation: the monitor is started once and every awaited call of the
\* start succeeds; then samples arrive and time passes.
NextRules ==
  \/ StartMonitoring
  \/ PermissionsSettle
  \/ (EstablishBaselineReads /\ lastReports'[1] \in LifeCycleReports)
  \/ SaveBaselineResolves
  \/ \E data \in MagnetometerData : MagnetometerSample(data)
  \/ \E data \in BarometerData : BarometerSample(data)
  \/ \E data \in BatteryData : BatterySample(data)
  \/ Tick

SpecRules == Init /\ [][NextRules]_vars

\* Only the magnetometer reports to the snapshot, a field of 40.0.
StartedOnceReports ==
  [magnetometer |-> [raises |-> FALSE, data |-> <<[x |-> 0, y |-> 0, z |-> Tenths(40)]>>],
   accelerometer |-> [raises |-> FALSE, data |-> <<>>],
   gyroscope |-> [raises |-> FALSE, data |-> <<>>],
   barometer |-> [raises |-> TRUE, data |-> <<>>],
   location |-> [raises |-> TRUE, data |-> <<>>]]

\* The monitor is started once, its awaited calls succeed, and the baseline has a
\* magnetic reading of 40.0.
StartedOnce ==
  \/ StartMonitoring
  \/ PermissionsSettle
  \/ (EstablishBaselineReads /\ lastReports'[1] = StartedOnceReports)
  \/ SaveBaselineResolves

\* The background task, whose writes settle either way.
BackgroundTask ==
  \/ \E r \in RandomPatterns, d \in LastDigits : BackgroundTaskRuns(r, d)
  \/ BackgroundSaveScanResolves
  \/ BackgroundSaveAnomalyResolves
  \/ BackgroundSaveRejects

\* The anomaly pipeline: magnetometer samples arrive, anomaly writes settle
\* either way, the background task runs.  The scans of the monitor stay at their
\* reads and the clock stands still.
NextPipeline ==
  \/ StartedOnce
  \/ \E data \in MagnetometerData : MagnetometerSample(data)
  \/ SaveAnomalyResolves
  \/ SaveAnomalyRejects
  \/ BackgroundTask

SpecPipeline == Init /\ [][NextPipeline]_vars

\* The scans: magnetometer samples arrive, the scans of the monitor are written
\* and rescheduled, the background task runs.  The anomaly writes of the monitor
\* stay in the queue and the clock stands still.
NextScans ==
  \/ StartedOnce
  \/ \E data \in MagnetometerData : MagnetometerSample(data)
  \/ \E i \in 1..Len(scanCalls) : ScanReadsSettle(i)
  \/ \E i \in 1..Len(scanCalls) : SaveScanResolves(i)
  \/ \E i \in 1..Len(scanCalls) : AnalyzeReadsRecent(i)
  \/ \E i \in 1..Len(scanCalls) : AnalyzeReadsDaily(i)
  \/ ScanTimerFires
  \/ BackgroundTask

SpecScans == Init /\ [][NextScans]_vars

\* Frequency patterns: one of the accelerometer and the gyroscope delivers
\* samples half a second apart, with at most a long silence in between.  The
\* anomaly writes stay in the queue.
NextFreq ==
  \/ StartedOnce
  \/ \E value \in FrequencyValues :
       /\ frequencyBuffers["rotation_matter"] = <<>>
       /\ AccelerometerSample(value)
  \/ \E value \in FrequencyValues :
       /\ frequencyBuffers["acceleration"] = <<>>
       /\ GyroscopeSample(value)
  \/ (now < StartOfRun + Hour /\ Tick)

SpecFreq == Init /\ [][NextFreq]_vars

\* The daily report: the background task fills the tables while reports are
\* generated for today and for yesterday; any read or write may fail.
NextReport ==
  \/ BackgroundTask
  \/ \E date \in ReportDates : GenerateDailyReport(date)
  \/ ReportReadsAnomalies
  \/ ReportReadsScans
  \/ SaveDailyReportResolves
  \/ ReportRejects

SpecReport == Init /\ [][NextReport]_vars

\* The trend of a series of readings, grown one reading at a time.
NextTrend == \E value \in TrendValues : CalculateTrend(value)

SpecTrend == Init /\ [][NextTrend]_vars

\* Sessions: the monitor is started, stopped and started again while the
\* accelerometer and the gyroscope deliver a few samples.
NextSessions ==
  \/ StartedOnce
  \/ StopMonitoring
  \/ \E value \in FrequencyValues :
       /\ lastInsert.n < MaxSessionSamples
       /\ AccelerometerSample(value)
  \/ \E value \in FrequencyValues :
       /\ lastInsert.n < MaxSessionSamples
       /\ GyroscopeSample(value)

SpecSessions == Init /\ [][NextSessions]_vars

\* The order of persistence: magnetometer samples arrive while time passes, the
\* anomaly writes settle either way, the background task runs.
NextOrder ==
  \/ StartedOnce
  \/ \E data \in MagnetometerData : MagnetometerSample(data)
  \/ Tick
  \/ SaveAnomalyResolves
  \/ SaveAnomalyRejects
  \/ BackgroundTask

SpecOrder == Init /\ [][NextOrder]_vars

\* One start of the monitor, with every combination of channels reporting or
\* failing when the snapshot of the baseline is taken.
NextBaseline ==
  \/ StartMonitoring
  \/ PermissionsSettle
  \/ EstablishBaselineReads
  \/ EstablishBaselineFails
  \/ SaveBaselineResolves
  \/ SaveBaselineRejects

SpecBaseline == Init /\ [][NextBaseline]_vars

\* The magnetometer, the barometer and the location report to the snapshot: a
\* field of 40.0, a pressure of 1010.0 and an accuracy of 40.0 m.
ProducersReports ==
  [magnetometer |-> [raises |-> FALSE, data |-> <<[x |-> 0, y |-> 0, z |-> Tenths(40)]>>],
   accelerometer |-> [raises |-> FALSE, data |-> <<>>],
   gyroscope |-> [raises |-> FALSE, data |-> <<>>],
   barometer |-> [raises |-> FALSE, data |-> <<[pressure |-> Tenths(1010)]>>],
   location |-> [raises |-> FALSE, data |-> <<[coords |-> [accuracy |-> Tenths(40)]]>>]]

\* The producers of anomalies: the monitor is started once; a magnetic field of
\* 51.0, a pressure of 1013.0, battery levels of 0.510 and 0.423 and positions
\* arrive while time passes and the scans run their hourly analysis; the
\* background task runs before the monitor is started, with Math.random() at
\* 0.05 and a clock reading that ends in 051, and its writes succeed.
NextProducers ==
  \/ StartMonitoring
  \/ PermissionsSettle
  \/ (EstablishBaselineReads /\ lastReports'[1] = ProducersReports)
  \/ SaveBaselineResolves
  \/ MagnetometerSample([x |-> 306, y |-> 408, z |-> 0])
  \/ BarometerSample([pressure |-> Tenths(1013)])
  \/ \E data \in {[batteryLevel |-> 510], [batteryLevel |-> 423]} : BatterySample(data)
  \/ \E location \in LocationData : LocationResolves(location)
  \/ LocationRejects
  \/ LocationTimerFires
  \/ Tick
  \/ \E i \in 1..Len(scanCalls) : ScanReadsSettle(i)
  \/ \E i \in 1..Len(scanCalls) : SaveScanResolves(i)
  \/ \E i \in 1..Len(scanCalls) : AnalyzeReadsRecent(i)
  \/ \E i \in 1..Len(scanCalls) : AnalyzeReadsDaily(i)
  \/ (~isMonitoring /\ BackgroundTaskRuns(5, 51))
  \/ BackgroundSaveScanResolves
  \/ BackgroundSaveAnomalyResolves

SpecProducers == Init /\ [][NextProducers]_vars

\* The snapshots with gaps: the magnetometer, the barometer and the location
\* each report or have no sample yet, the other channels have none.
GapReports ==
  {reports \in SnapshotReports :
     /\ \A c \in DOMAIN reports : ~reports[c].raises
     /\ reports.accelerometer.data = <<>>
     /\ reports.gyroscope.data = <<>>}

\* Rules on a baseline with gaps: the monitor is started once with any of the
\* snapshots with gaps, then samples and positions arrive and time passes.
NextGaps ==
  \/ StartMonitoring
  \/ PermissionsSettle
  \/ (EstablishBaselineReads /\ lastReports'[1] \in GapReports)
  \/ SaveBaselineResolves
  \/ \E data \in MagnetometerData : MagnetometerSample(data)
  \/ \E data \in BarometerData : BarometerSample(data)
  \/ \E data \in BatteryData : BatterySample(data)
  \/ \E location \in LocationData : LocationResolves(location)
  \/ LocationTimerFires
  \/ Tick

SpecGaps == Init /\ [][NextGaps]_vars

\* Malformed samples: the accelerometer and the gyroscope deliver a few samples,
\* some of them with a NaN component.
NextMalformed ==
  \/ StartedOnce
  \/ \E value \in FrequencyValues \cup {NaN} :
       /\ lastInsert.n < MaxSessionSamples
       /\ AccelerometerSample(value)
  \/ \E value \in FrequencyValues \cup {NaN} :
       /\ lastInsert.n < MaxSessionSamples
       /\ GyroscopeSample(value)

SpecMalformed == Init /\ [][NextMalformed]_vars

\* Ticks: the monitor is started, stopped and started again while its scans are
\* written, analysed and rescheduled; every awaited call succeeds.
NextTicks ==
  \/ StartedOnce
  \/ StopMonitoring
  \/ \E i \in 1..Len(scanCalls) : ScanReadsSettle(i)
  \/ \E i \in 1..Len(scanCalls) : SaveScanResolves(i)
  \/ \E i \in 1..Len(scanCalls) : AnalyzeReadsRecent(i)
  \/ \E i \in 1..Len(scanCalls) : AnalyzeReadsDaily(i)
  \/ ScanTimerFires

SpecTicks == Init /\ [][NextTicks]_vars

\* Scans and signal generation: generation is started and stopped while the
\* scans of the monitor and of the background task are written.
NextGeneration ==
  \/ StartedOnce
  \/ StartGeneration
  \/ StopGeneration
  \/ \E i \in 1..Len(scanCalls) : ScanReadsSettle(i)
  \/ \E i \in 1..Len(scanCalls) : SaveScanResolves(i)
  \/ \E i \in 1..Len(scanCalls) : AnalyzeReadsRecent(i)
  \/ \E i \in 1..Len(scanCalls) : AnalyzeReadsDaily(i)
  \/ ScanTimerFires
  \/ BackgroundTask

SpecGeneration == Init /\ [][NextGeneration]_vars

\* The generator alone: it is started and stopped while its loops sleep, return
\* and fail.
NextLoops ==
  \/ StartGeneration
  \/ StopGeneration
  \/ \E modality \in Modalities : GenerationLoopReturns(modality)
  \/ \E modality \in Modalities : GenerationLoopFails(modality)

SpecLoops == Init /\ [][NextLoops]_vars

\* The effect of generation on the anomalies, computed from the rows of a day.
NextEffect ==
  \E rows \in EffectAnomalies, scans \in EffectScans : ComputeState51Effect(rows, scans)

SpecEffect == Init /\ [][NextEffect]_vars

\* The day window and the date key of a report, on devices in three time zones.
NextWindow ==
  \/ \E t \in WindowTimes, offset \in TimeZoneOffsets : ScreenReportWindow(t, offset)
  \/ \E t \in WindowTimes, offset \in TimeZoneOffsets : MidnightReportWindow(t, offset)

SpecWindow == Init /\ [][NextWindow]_vars

\* The counts of the report: the monitor is started once; a magnetic field of
\* 51.0, battery levels of 0.510 and 0.423 and positions arrive while time
\* passes, their anomalies are written, and reports are generated for today and
\* for yesterday.
NextCounts ==
  \/ StartedOnce
  \/ MagnetometerSample([x |-> 306, y |-> 408, z |-> 0])
  \/ \E data \in {[batteryLevel |-> 510], [batteryLevel |-> 423]} : BatterySample(data)
  \/ SaveAnomalyResolves
  \/ Tick
  \/ \E date \in ReportDates : GenerateDailyReport(date)
  \/ ReportReadsAnomalies
  \/ ReportReadsScans
  \/ SaveDailyReportResolves

SpecCounts == Init /\ [][NextCounts]_vars

\* The patterns analyzePatterns() derives from the rows it reads.
NextPatterns ==
  \E recentCount \in 0..MaxRecent, daily \in DailyRows : AnalyzePatterns(recentCount, daily)

SpecPatterns == Init /\ [][NextPatterns]_vars

\* The service worker: anomalies are queued by the page and by the interval,
\* and sync events process them; the store of any of them may raise.
NextSync ==
  \/ \E type \in MessageTypes : QueueAnomalyMessage(type)
  \/ CosmicIntervalFires
  \/ \E failing \in SUBSET (1..queued) : SyncEvent(failing)

SpecSync == Init /\ [][NextSync]_vars

-----------------------------------------------------------------------------
(* Claims *)

\* The state of the program, without the history variables.
programVars == <<isMonitoring, subscriptions, baselineData, anomalies, startCalls,
                 scanCalls, scanTimers, saveQueue, listeners, now, baselinesTable,
                 anomaliesTable, scansTable, alerts, backgroundCall,
                 frequencyBuffers, dailyReportsTable, reportQueue>>

\* C1: once stopMonitoring() has returned, and until startMonitoring() is called
\* again, no channel listener is attached, whatever startMonitoring() call was
\* still awaiting when the stop was made.
C1_NoListenerAfterStop == lastCall = "stop" => listeners = NoListeners

\* C2: right after a stopMonitoring() the monitor is stopped with no subscription
\* and no listener attached, and a second stopMonitoring() made directly after
\* the first changes nothing of the program's state.
C2_StopTwice ==
  /\ [](stopsInARow >= 1 =>
          /\ ~isMonitoring
          /\ subscriptions = <<>>
          /\ listeners = NoListeners)
  /\ [][stopsInARow = 1 /\ stopsInARow' = 2 => UNCHANGED programVars]_vars

\* Two stops in a row, made after a start had run to its end and attached listeners.
C2_Witness ==
  /\ stopsInARow = 2
  /\ baselinesTable # <<>>
  /\ listeners = NoListeners

\* C3: every Scan row written while a monitoring session exists, by the periodic
\* scan or by the background task, has for anomalyCount the number of Anomaly
\* records created since monitoring was started.
C3_ScanCountsAnomalies ==
  \A i \in 1..Len(scansTable) :
    scansTable[i].expected # Undefined =>
      scansTable[i].anomaly_count = scansTable[i].expected

\* The anomalies whose producer has not yet come back from the persistence write.
BeingSaved ==
  {anomalies[saveQueue[k]].id : k \in 1..Len(saveQueue)}
    \cup (IF backgroundCall = <<>> THEN {}
          ELSE {backgroundCall[1].pending[k].id :
                  k \in 1..Len(backgroundCall[1].pending)})

AlertsFor(id) == Cardinality({k \in 1..Len(alerts) : alerts[k] = id})

\* C4: every anomaly of significance high or critical, of the monitor or of the
\* background task, has had the alert callback invoked exactly once when its
\* producer is past the persistence write, whether the write succeeded or failed.
C4_AlertExactlyOnce ==
  \A a \in {anomalies[k] : k \in 1..Len(anomalies)}
             \cup {backgroundFound[k] : k \in 1..Len(backgroundFound)} :
    (a.significance \in {"high", "critical"} /\ a.id \notin BeingSaved) =>
      AlertsFor(a.id) = 1

\* The anomalies of type `type` among `found`.
OfType(found, type) == {i \in 1..Len(found) : found[i].type = type}

\* C5: a magnetometer sample of magnitude m makes the listener record a
\* magnetic_51 anomaly of significance high when |m - 51| < 1, in every state
\* of the monitor in which the listener runs, and none when |m - 51| >= 1.
C5_Magnetic51Always ==
  lastSample.channel = "magnetometer" =>
    LET hits == OfType(lastSample.recorded, "magnetic_51") IN
      IF 500 < lastSample.reading /\ lastSample.reading < 520
        THEN hits # {} /\ \A i \in hits : lastSample.recorded[i].significance = "high"
        ELSE hits = {}

\* The deviation anomaly of a channel, its baseline reading and its threshold.
DeviationType(channel) ==
  IF channel = "magnetometer" THEN "magnetic_anomaly" ELSE "pressure_anomaly"

BaselineReading(channel, b) ==
  IF channel = "magnetometer" THEN b.sensors.magneticField ELSE b.sensors.pressure

DeviationThreshold(channel) == IF channel = "magnetometer" THEN 100 ELSE 20

\* C6: for a baseline that holds a reading B of the channel, a magnetometer or
\* barometer sample whose distance from B is above the channel's threshold (10,
\* 2) records exactly one deviation anomaly, and a sample at or below it none.
C6_DeviationExactlyOne ==
  (/\ lastSample.channel \in {"magnetometer", "barometer"}
   /\ lastSample.baseline # <<>>
   /\ BaselineReading(lastSample.channel, lastSample.baseline[1]) # Undefined) =>
    LET B == BaselineReading(lastSample.channel, lastSample.baseline[1])
        n == Cardinality(OfType(lastSample.recorded, DeviationType(lastSample.channel)))
    IN IF lastSample.reading - B > DeviationThreshold(lastSample.channel)
          \/ B - lastSample.reading > DeviationThreshold(lastSample.channel)
         THEN n = 1
         ELSE n = 0

\* C7: with a baseline present, a battery sample records a battery_777 anomaly,
\* of significance high, exactly when the drain per hour d = (baseline level -
\* level) / (hours since the baseline) has 0.067 < d < 0.087: d = 0.077 does,
\* d = 0.090 does not.
C7_BatteryDrainRule ==
  (lastSample.channel = "battery" /\ lastSample.baseline # <<>>) =>
    LET drain == lastSample.baseline[1].battery.level - lastSample.reading
        hits == OfType(lastSample.recorded, "battery_777")
    IN /\ hits # {} <=> (/\ lastSample.elapsed > 0
                         /\ 67 * lastSample.elapsed < drain * Hour
                         /\ drain * Hour < 87 * lastSample.elapsed)
       /\ \A i \in hits : lastSample.recorded[i].significance = "high"
       /\ (drain * Hour = 90 * lastSample.elapsed) => hits = {}

\* A battery sample whose drain per hour is exactly 0.077 recorded battery_777.
C7_Witness ==
  /\ lastSample.channel = "battery"
  /\ lastSample.baseline # <<>>
  /\ lastSample.elapsed > 0
  /\ (lastSample.baseline[1].battery.level - lastSample.reading) * Hour
       = 77 * lastSample.elapsed
  /\ OfType(lastSample.recorded, "battery_777") # {}

\* C8: when the array the frequency estimator is used on holds fewer than 11
\* points, the insert computes no frequency (no peaks are looked for) and records
\* no frequency_match anomaly.
C8_NoEstimateUnderEleven ==
  \A k \in 1..Len(lastInsert.analyses) :
    Len(lastInsert.analyses[k].buffer) < 11 =>
      /\ ~lastInsert.analyses[k].estimated
      /\ lastInsert.analyses[k].frequency = <<>>
      /\ lastInsert.analyses[k].recorded = <<>>

\* The indices of the points of `buffer` strictly above both neighbours.
StrictMaxima(buffer) ==
  {i \in 1..Len(buffer) :
     /\ 1 < i
     /\ i < Len(buffer)
     /\ buffer[i - 1].value < buffer[i].value
     /\ buffer[i + 1].value < buffer[i].value}

\* A 10-point buffer that oscillates at the target frequency: its peaks would
\* give a match, and the insert made no estimate.
C8_Witness ==
  \E k \in 1..Len(lastInsert.analyses) :
    LET a == lastInsert.analyses[k] IN
      /\ Len(a.buffer) = 10
      /\ ~a.estimated
      /\ Cardinality(StrictMaxima(a.buffer)) = 4
      /\ \A i \in StrictMaxima(a.buffer) :
           i + 2 \in StrictMaxima(a.buffer) \/ i + 2 >= Len(a.buffer)

\* Peaks at timestamps 0, 1000, 2000 and 3000 ms.
FourPeaks == [i \in 1..4 |-> [value |-> 1, timestamp |-> 1000 * (i - 1)]]

\* C9: the peaks an insert finds are exactly the points of the analysed buffer
\* strictly greater than both immediate neighbours, in buffer order; with k >= 2
\* peaks the estimate f satisfies f * (mean of the k - 1 adjacent inter-peak
\* intervals) = 1000, the intervals adding up to the time from the first peak to
\* the last; with fewer there is none (0).  Peaks at [0, 1000, 2000, 3000] ms
\* give exactly 1 Hz.
C9_PeaksAndEstimate ==
  /\ estimateFrequency(FourPeaks).num = estimateFrequency(FourPeaks).den
  /\ \A n \in 1..Len(lastInsert.analyses) :
       LET a == lastInsert.analyses[n]
           k == Len(a.peaks)
           f == a.frequency[1]
       IN a.estimated =>
            /\ k = Cardinality(StrictMaxima(a.buffer))
            /\ \A j \in 1..k : \E i \in StrictMaxima(a.buffer) : a.peaks[j] = a.buffer[i]
            /\ \A j \in 1..(k - 1) : a.peaks[j].timestamp < a.peaks[j + 1].timestamp
            /\ IF k >= 2
                 THEN /\ f.den > 0
                      /\ f.num * (a.peaks[k].timestamp - a.peaks[1].timestamp)
                           = 1000 * (k - 1) * f.den
                 ELSE f.num = 0

\* An insert whose buffer has an end point above its neighbour, a plateau and
\* four peaks one second apart, estimated at 1 Hz.
C9_Witness ==
  \E n \in 1..Len(lastInsert.analyses) :
    LET a == lastInsert.analyses[n] IN
      /\ a.estimated
      /\ Len(a.peaks) = 4
      /\ \A j \in 1..3 : a.peaks[j + 1].timestamp - a.peaks[j].timestamp = 1000
      /\ a.frequency[1].num = a.frequency[1].den
      /\ a.buffer[1].value > a.buffer[2].value
      /\ \E i \in 2..(Len(a.buffer) - 1) :
           /\ a.buffer[i].value > a.buffer[i - 1].value
           /\ a.buffer[i].value = a.buffer[i + 1].value

\* The generations of the report of day `date` whose write has succeeded, by
\* their place in the order of settling.
SavedFor(date) ==
  {n \in 1..Len(generated) : generated[n].date = date /\ generated[n].outcome = "saved"}

RowsFor(date) == {i \in 1..Len(dailyReportsTable) : dailyReportsTable[i].date = date}

\* C10: no two stored reports share a date; and once reports have been generated
\* and written for a date, exactly one report is stored for it, which holds in
\* every column the values of the generation called last and nothing of an
\* earlier one.
C10_OneReportPerDate ==
  /\ \A i, j \in 1..Len(dailyReportsTable) :
       dailyReportsTable[i].date = dailyReportsTable[j].date => i = j
  /\ \A n \in 1..Len(generated) :
       LET date == generated[n].date
           last == CHOOSE m \in SavedFor(date) :
                     \A o \in SavedFor(date) : generated[o].call <= generated[m].call
       IN generated[n].outcome = "saved" =>
            /\ Cardinality(RowsFor(date)) = 1
            /\ \A i \in RowsFor(date) :
                 LET row == dailyReportsTable[i]
                     second == generated[last].report[1]
                 IN /\ row.report_data = second
                    /\ row.total_anomalies = second.totalAnomalies
                    /\ row.high_significance_count = second.highSignificance
                    /\ row.cosmic_window_anomalies = second.cosmicWindowAnomalies
                    /\ row.state51_correlations = second.state51Correlations
                    /\ row.battery_anomalies = second.batteryAnomalies
                    /\ row.magnetic_anomalies = second.magneticAnomalies
                    /\ row.frequency_matches = second.frequencyMatches

\* The report of one date was generated and written twice, the second time from
\* more anomalies than the first, and one report is stored for the date.
C10_Witness ==
  \E m, n \in 1..Len(generated) :
    /\ generated[m].call < generated[n].call
    /\ generated[m].date = generated[n].date
    /\ generated[m].outcome = "saved"
    /\ generated[n].outcome = "saved"
    /\ generated[m].report[1].totalAnomalies < generated[n].report[1].totalAnomalies
    /\ Cardinality(RowsFor(generated[n].date)) = 1

\* C11: when analyzePatterns() finds no anomaly in the last 24 hours, the
\* cosmicCorrelation it returns is the number 0 (not NaN) and
\* hasCosmicCorrelation is false.
C11_ZeroCorrelationWhenEmpty ==
  \A k \in 1..Len(lastAnalysis) :
    lastAnalysis[k].anomalyCount = 0 =>
      /\ ~lastAnalysis[k].cosmicCorrelation.nan
      /\ lastAnalysis[k].cosmicCorrelation.num = 0
      /\ ~lastAnalysis[k].patterns.hasCosmicCorrelation

\* C12: for a series of n >= 2 readings whose first floor(n/2) values have a
\* mean A above 0 and whose other values have the mean B, calculateTrend returns
\* "stable" exactly when |B - A| < A / 100, and otherwise "increasing X%" when
\* B > A and "decreasing X%" when B < A, X being 100 * |B - A| / A to one
\* decimal.  [10,10,10,20,20,20] gives increasing 100.0%, six times 10 stable.
C12_TrendOfHalves ==
  /\ calculateTrend(<<10, 10, 10, 20, 20, 20>>)
       = [direction |-> "increasing", finite |-> TRUE, tenths |-> 1000]
  /\ calculateTrend(<<10, 10, 10, 10, 10, 10>>).direction = "stable"
  /\ LET values == lastTrend.values
         n == Len(values)
         inFirst == {i \in 1..n : 2 * i <= n}
         nA == Cardinality(inFirst)
         nB == n - nA
         sumA == Sum([i \in 1..nA |-> values[i]])
         sumB == Sum([i \in 1..nB |-> values[nA + i]])
         diff == sumB * nA - sumA * nB
         label == lastTrend.result
     IN (n >= 2 /\ sumA > 0) =>
          /\ label.direction = "stable" <=> 100 * Abs(diff) < sumA * nB
          /\ label.direction # "stable" =>
               /\ label.finite
               /\ label.direction = (IF diff > 0 THEN "increasing" ELSE "decreasing")
               /\ 2 * Abs(label.tenths * sumA * nB - 1000 * Abs(diff)) <= sumA * nB

\* The trend of [10, 10, 10, 20, 20, 20] was computed: increasing 100.0%.
C12_Witness ==
  /\ lastTrend.values = <<10, 10, 10, 20, 20, 20>>
  /\ lastTrend.result.direction = "increasing"
  /\ lastTrend.result.tenths = 1000

\* C13: when stopMonitoring() has just returned, every frequency buffer is empty.
C13_BuffersClearedByStop ==
  stopsInARow >= 1 =>
    \A sensorType \in SensorTypes : frequencyBuffers[sensorType] = <<>>

\* C14: the background task does nothing when monitoring is stopped: no Scan row
\* comes from a background cycle that was invoked while isMonitoring was false,
\* and such a cycle has no anomaly to save.
C14_BackgroundNoOpWhenStopped ==
  /\ \A i \in 1..Len(scansTable) :
       scansTable[i].writer = "background" => scansTable[i].monitoring
  /\ \A k \in 1..Len(backgroundCall) :
       ~backgroundCall[k].scanData.monitoring => backgroundCall[k].pending = <<>>

\* C15: the periodic scan chain is never lost while monitoring is on: when
\* isMonitoring is true, the monitors are attached and no startMonitoring() is
\* still on its way, a scan() call is in flight or a setTimeout(scan) is pending
\* (only these write a later Scan; startMonitoring() returns at once while
\* isMonitoring is true).
C15_ScanChainSurvives ==
  (isMonitoring /\ InFlightStarts = 0 /\ subscriptions # <<>>) =>
    Len(scanCalls) + scanTimers > 0

\* C16: the current baseline is in the persisted baseline history, once no
\* baseline write is under way.
C16_CurrentBaselinePersisted ==
  (baselineData # <<>> /\ startCalls.saveBaseline = <<>>) =>
    \E i \in 1..Len(baselinesTable) : baselinesTable[i] = baselineData[1]

\* The anomalies of the monitor whose write was rejected: pushed, no longer
\* waiting for the write, and in no row of the table.
RejectedAnomalies ==
  {k \in 1..Len(anomalies) :
     /\ \A j \in 1..Len(saveQueue) : saveQueue[j] # k
     /\ \A j \in 1..Len(anomaliesTable) : anomaliesTable[j].id # anomalies[k].id}

\* C17: the in-memory anomaly count is the number of anomalies passed to
\* recordAnomaly, whether their writes are pending, succeeded or failed.
C17_CountedWhateverTheWrite ==
  Len(anomalies) = created - Len(backgroundFound)

C17_Witness ==
  /\ RejectedAnomalies # {}
  /\ Len(anomalies) = created - Len(backgroundFound)
  /\ Len(anomalies) >= 2

\* The rows of the anomalies table written by the monitor.
MonitorRows ==
  {i \in 1..Len(anomaliesTable) :
     \E k \in 1..Len(anomalies) : anomalies[k].id = anomaliesTable[i].id}

\* Two rows of the anomalies table of one producer, the monitor or the
\* background task.
SameProducer(i, j) == (i \in MonitorRows) = (j \in MonitorRows)

\* C18: the rows of one producer are in the table in the order in which their
\* anomalies were detected, with timestamps that never decrease, and no anomaly
\* of the monitor waits for its write behind a row detected after it.
C18_PersistedInDetectionOrder ==
  /\ \A i, j \in 1..Len(anomaliesTable) :
       (i < j /\ SameProducer(i, j)) =>
         /\ anomaliesTable[i].id < anomaliesTable[j].id
         /\ anomaliesTable[i].timestamp <= anomaliesTable[j].timestamp
  /\ \A i \in MonitorRows : \A k \in 1..Len(saveQueue) :
       anomaliesTable[i].id < anomalies[saveQueue[k]].id

C18_Witness ==
  \E i, j \in MonitorRows :
    /\ i < j
    /\ anomaliesTable[i].timestamp < anomaliesTable[j].timestamp
    /\ saveQueue # <<>>

\* The property of the snapshot each channel fills.
SnapshotProperty ==
  [magnetometer |-> "magneticField", accelerometer |-> "acceleration",
   gyroscope |-> "rotation", barometer |-> "pressure", location |-> "gpsAccuracy"]

\* C19: whatever channels fail to report when a baseline is established, by
\* raising or by having no sample, the baseline becomes current with a snapshot
\* that has the property of every channel that reported and of no other.
C19_PartialBaseline ==
  lastReports # <<>> =>
    /\ baselineData # <<>>
    /\ \A c \in DOMAIN SnapshotProperty :
         (lastReports[1][c].data # <<>>)
           <=> (baselineData[1].sensors[SnapshotProperty[c]] # Undefined)

C19_Witness ==
  /\ lastReports # <<>>
  /\ lastReports[1].magnetometer.raises
  /\ lastReports[1].barometer = [raises |-> FALSE, data |-> <<>>]
  /\ lastReports[1].gyroscope.data # <<>>
  /\ lastReports[1].location.data # <<>>
  /\ baselineData # <<>>
  /\ baselineData[1].sensors.magneticField = Undefined
  /\ baselineData[1].sensors.rotation = 0
  /\ baselinesTable = baselineData
  /\ subscriptions # <<>>

Significances == {"low", "medium", "high", "critical"}

\* C20: every anomaly record created by the rules of the monitor, by its hourly
\* analysis or by the background task has a significance among low, medium,
\* high and critical.
C20_SignificanceGraded ==
  /\ \A k \in 1..Len(anomalies) : anomalies[k].significance \in Significances
  /\ \A k \in 1..Len(backgroundFound) :
       backgroundFound[k].significance \in Significances

C20_Witness ==
  /\ \E k \in 1..Len(anomalies) : anomalies[k].type = "gps_51"
  /\ \E k \in 1..Len(anomalies) : anomalies[k].type = "cosmic_correlation"
  /\ \E k \in 1..Len(backgroundFound) :
       backgroundFound[k].type = "cosmic_background_detection"
  /\ \A k \in 1..Len(anomalies) : anomalies[k].significance \in Significances

\* C21: at most one periodic scan chain, a scan() call under way or a timer
\* that will call it, is pending at any time.
C21_OneScanChain == Len(scanCalls) + scanTimers <= 1

\* C22: at most one listener is attached to each sensor channel at any time.
C22_OneListenerPerChannel == \A c \in Channels : listeners[c] <= 1

\* C23: once no start is under way, a monitor that reports isMonitoring has its
\* channel listeners attached.
C23_MonitoringHasListeners ==
  (isMonitoring /\ InFlightStarts = 0) => listeners # NoListeners

\* C24: every point of the array an insert counts for the 11-point guard, looks
\* for peaks in and estimates the frequency from has a timestamp within the 10
\* seconds before the insert.
C24_AnalysedPointsPruned ==
  \A k \in 1..Len(lastInsert.analyses) :
    LET a == lastInsert.analyses[k]
        inserted == a.buffer[Len(a.buffer)].timestamp
    IN \A i \in 1..Len(a.buffer) : a.buffer[i].timestamp > inserted - 10000

\* The targets of the frequency rule, in thousandths of a Hz.
TargetFrequencies == {1038, 962}

\* C25: on either channel, an insert whose estimate is within 0.1 Hz of a target
\* records a frequency_match anomaly of significance high for that target, and
\* an insert records none for a target its estimate is not within 0.1 Hz of.
C25_EitherTargetOnBothChannels ==
  \A k \in 1..Len(lastInsert.analyses) :
    LET a == lastInsert.analyses[k] IN
      /\ \A i \in 1..Len(a.recorded) : a.recorded[i].significance = "high"
      /\ a.recorded # <<>> => (a.estimated /\ nearTarget(a.frequency[1], a.targetFreq))
      /\ a.estimated =>
           \A target \in TargetFrequencies :
             nearTarget(a.frequency[1], target) =>
               \E j \in 1..Len(lastInsert.analyses) :
                 /\ lastInsert.analyses[j].buffer = a.buffer
                 /\ lastInsert.analyses[j].targetFreq = target
                 /\ lastInsert.analyses[j].recorded # <<>>

\* The property of the baseline's snapshot a rule compares the sample with, and
\* the anomaly of that rule.
BaselineRules ==
  [magnetometer |-> [property |-> "magneticField", type |-> "magnetic_anomaly"],
   barometer |-> [property |-> "pressure", type |-> "pressure_anomaly"],
   location |-> [property |-> "gpsAccuracy", type |-> "gps_enhancement"]]

\* C26: a sample met with no baseline records no anomaly of the battery drain
\* rule; a magnetometer or barometer sample or a position met with no baseline,
\* or with a baseline whose snapshot lacks the channel's reading, records no
\* anomaly of the rule that compares it with the baseline.
C26_SkippedWithoutBaselineReading ==
  /\ (lastSample.channel = "battery" /\ lastSample.baseline = <<>>) =>
       OfType(lastSample.recorded, "battery_777") = {}
  /\ \A c \in DOMAIN BaselineRules :
       (/\ lastSample.channel = c
        /\ \/ lastSample.baseline = <<>>
           \/ lastSample.baseline[1].sensors[BaselineRules[c].property] = Undefined)
         => OfType(lastSample.recorded, BaselineRules[c].type) = {}

\* A pressure 3.0 hPa above what a full baseline holds, met with a baseline
\* that has a magnetic reading and no pressure.
C26_Witness ==
  /\ lastSample.channel = "barometer"
  /\ lastSample.reading = Tenths(1013)
  /\ lastSample.baseline # <<>>
  /\ lastSample.baseline[1].sensors.pressure = Undefined
  /\ lastSample.baseline[1].sensors.magneticField = Tenths(40)
  /\ lastSample.recorded = <<>>
  /\ Len(anomalies) >= 1

\* C27: no point of a frequency buffer holds a NaN reading.
C27_NaNNotBuffered ==
  \A sensorType \in SensorTypes :
    \A i \in 1..Len(frequencyBuffers[sensorType]) :
      frequencyBuffers[sensorType][i].value # NaN

\* C28: no step of the monitor replaces a baseline that is current (the model
\* has no call of establishBaseline other than those startMonitoring makes).
C28_BaselineNotReplaced ==
  [][baselineData # <<>> => baselineData' = baselineData]_vars

\* C29: a timer of the scan chain that fires while monitoring is stopped begins
\* no scan() call, writes no Scan, runs no hourly analysis and records nothing;
\* no timer takes its place.
C29_TickWhileStoppedIsNoOp ==
  [][(scanTimers' = scanTimers - 1 /\ ~isMonitoring) =>
       /\ scanCalls' = scanCalls
       /\ scansTable' = scansTable
       /\ lastAnalysis' = lastAnalysis
       /\ anomalies' = anomalies
       /\ anomaliesTable' = anomaliesTable]_vars

\* The chain is gone after it has written a Scan: with every awaited call
\* succeeding, its timer has fired while monitoring was stopped.
C29_Witness ==
  /\ ~isMonitoring
  /\ InFlightStarts = 0
  /\ scanCalls = <<>>
  /\ scanTimers = 0
  /\ Len(scansTable) = 1
  /\ lastAnalysis # <<>>

\* C30: a row of the scans table written while signal generation was active
\* holds state51_active = 1, and a row written while it was not holds 0.
C30_ScanCarriesGenerationFlag ==
  \A i \in 1..Len(scansTable) :
    scansTable[i].state51_active = (IF scansTable[i].generating THEN 1 ELSE 0)

\* C39: whatever the sequence of startGeneration() and stopGeneration() calls,
\* at most one generation loop of each modality (audio, visual, haptic,
\* electromagnetic) is running.
C39_OneLoopPerModality ==
  \A modality \in Modalities : loops[modality] <= 1

C32_KeyNamesLocalDayOfWindow ==
  \A k \in 1..Len(lastWindow) :
    LET call == lastWindow[k]
        localDay == (call.window.startOfDay + call.offset) \div Day
    IN /\ call.window.date = localDay
       /\ (call.caller = "midnight") =>
            call.window.date = ((call.calledAt + call.offset) \div Day) - 1

\* The reports that have been built and wait for their write, each with the
\* records it was built from.
BuiltReports ==
  {reportQueue[k] : k \in {j \in 1..Len(reportQueue) : reportQueue[j].report # <<>>}}

\* The anomaly records the table held when the call read it whose timestamp
\* is in the day of the call.
RecordsOfDay(call) ==
  {i \in 1..call.tableRead :
     /\ anomaliesTable[i].timestamp >= (call.date \div Day) * Day
     /\ anomaliesTable[i].timestamp <= (call.date \div Day) * Day + Day - 1}

\* C33: the counts of the daily report match its input: totalAnomalies is the
\* number of anomaly records with a timestamp in the day window, and the
\* high/critical, cosmic-window, battery, magnetic, frequency and
\* type-containing-"51" counts are the numbers of those records that satisfy
\* the predicate, so each is at most totalAnomalies.
C33_CountsMatchRecordsOfDay ==
  \A call \in BuiltReports :
    LET report == call.report[1]
        records == RecordsOfDay(call)
        typed(types) == Cardinality({i \in records : anomaliesTable[i].type \in types})
    IN /\ report.totalAnomalies = Cardinality(records)
       /\ report.highSignificance =
            Cardinality({i \in records :
                           anomaliesTable[i].significance \in {"high", "critical"}})
       /\ report.cosmicWindowAnomalies =
            Cardinality({i \in records : anomaliesTable[i].cosmic_window = 1})
       /\ report.batteryAnomalies = typed({"battery_777", "battery_increase"})
       /\ report.magneticAnomalies = typed({"magnetic_anomaly", "magnetic_51"})
       /\ report.frequencyMatches =
            typed({"frequency_match_acceleration", "frequency_match_rotation_matter",
                   "frequency_match_rotation_consciousness"})
       /\ report.state51Correlations = typed({"magnetic_51", "gps_51"})
       /\ \A count \in {report.highSignificance, report.cosmicWindowAnomalies,
                        report.batteryAnomalies, report.magneticAnomalies,
                        report.frequencyMatches, report.state51Correlations} :
            count <= report.totalAnomalies

\* A report of a day with several records, among them magnetic, battery and
\* "51" ones, some but not all of high or critical significance; and a report
\* of the day before, empty although the table holds records.
C33_Witness ==
  /\ \E call \in BuiltReports :
       /\ call.report[1].totalAnomalies = 3
       /\ call.report[1].magneticAnomalies >= 1
       /\ call.report[1].batteryAnomalies >= 1
       /\ call.report[1].state51Correlations >= 1
       /\ call.report[1].highSignificance \in 1..2
  /\ \E call \in BuiltReports :
       /\ call.tableRead > 0
       /\ call.report[1].totalAnomalies = 0

\* C34: analyzePatterns flags anomalySpike exactly when the number of anomalies
\* of the last hour is strictly greater than twice the hourly average of the
\* last 24 hours, that is when 12 * recentCount > dailyCount; with no anomalies
\* at all the flag is false.
C34_SpikeAboveTwiceHourlyAverage ==
  \A k \in 1..Len(lastAnalysis) :
    LET patterns == lastAnalysis[k]
    IN /\ patterns.anomalySpike <=> (12 * patterns.recentCount > patterns.anomalyCount)
       /\ (patterns.anomalyCount = 0 /\ patterns.recentCount = 0) => ~patterns.anomalySpike

\* An analysis of 24 anomalies of which 2 are of the last hour: exactly twice
\* the hourly average, and no spike.
C34_Witness ==
  /\ lastAnalysis # <<>>
  /\ lastAnalysis[1].recentCount = 2
  /\ lastAnalysis[1].anomalyCount = 24
  /\ ~lastAnalysis[1].anomalySpike

\* C35: analyzePatterns sets hasState51 iff some anomaly of the last 24 hours
\* has a type containing "51" or a value within 1 of 51 or within 0.01 of 0.51,
\* hasMutation iff some has a value within 0.001 of 0.077 or within 0.1 of 7.7
\* or a type containing "777", and hasCosmicCorrelation iff cosmicCorrelation
\* is above 0.5; so every magnetic_51 or gps_51 row sets hasState51 and every
\* battery_777 row sets hasMutation.
C35_FlagsFromTypeAndValue ==
  \A k \in 1..Len(lastFlags) :
    LET daily == lastFlags[k].daily
        flags == lastFlags[k].flags
        rows == 1..Len(daily)
        cosmic == Cardinality({i \in rows : daily[i].cosmic_window = 1})
    IN /\ flags.hasState51 <=>
            \E i \in rows :
              \/ daily[i].type \in {"magnetic_51", "gps_51"}
              \/ (daily[i].value > 50000 /\ daily[i].value < 52000)
              \/ (daily[i].value > 500 /\ daily[i].value < 520)
       /\ flags.hasMutation <=>
            \E i \in rows :
              \/ daily[i].value = 77
              \/ (daily[i].value > 7600 /\ daily[i].value < 7800)
              \/ daily[i].type = "battery_777"
       /\ lastAnalysis[k].patterns.hasCosmicCorrelation <=>
            (daily # <<>> /\ 2 * cosmic > Len(daily))

\* A day whose only rows are a gps_51 and a battery_777 anomaly with values far
\* from every target: both flags are set by the type alone.
C35_Witness ==
  /\ lastFlags # <<>>
  /\ Len(lastFlags[1].daily) = 2
  /\ {lastFlags[1].daily[i].type : i \in 1..2} = {"gps_51", "battery_777"}
  /\ \A i \in 1..2 : lastFlags[1].daily[i].value = 40000
  /\ lastFlags[1].flags.hasState51
  /\ lastFlags[1].flags.hasMutation

\* The rows of the anomalies table the monitor has written.
MonitorWritten ==
  {i \in 1..Len(anomaliesTable) :
     \E k \in 1..Len(anomalies) : anomalies[k].id = anomaliesTable[i].id}

\* C36: every anomaly the monitor produces is stamped, at the time it is
\* evaluated, with cosmicWindow = true exactly when the local hour is 3, and
\* the record persisted for it keeps that flag.
C36_StampedWithCosmicWindow ==
  /\ \A k \in 1..Len(anomalies) :
       /\ anomalies[k].timestamp <= now
       /\ anomalies[k].cosmicWindow <=> ((anomalies[k].timestamp \div Hour) % 24 = 3)
  /\ \A i \in MonitorWritten :
       anomaliesTable[i].cosmic_window =
         (IF (anomaliesTable[i].timestamp \div Hour) % 24 = 3 THEN 1 ELSE 0)

\* At 4 AM the table holds an anomaly of the monitor stamped inside the window
\* and one stamped after it.
C36_Witness ==
  /\ (now \div Hour) % 24 = 4
  /\ \E i, j \in MonitorWritten :
       /\ anomaliesTable[i].cosmic_window = 1
       /\ anomaliesTable[j].cosmic_window = 0

\* C37: calculateTrend returns "stable" for every constant series and never
\* returns a label whose percentage is not finite (NaN or Infinity), series
\* whose first half has the mean 0 included.
C37_TrendLabelFinite ==
  /\ lastTrend.result.finite
  /\ (\A i, j \in 1..Len(lastTrend.values) : lastTrend.values[i] = lastTrend.values[j])
       => lastTrend.result.direction = "stable"

\* C38: every anomaly queued with queueAnomalyForSync is processed by a sync
\* and stored exactly once in the processed list, an anomaly whose processing
\* raises included: until then it stays in the pending queue, and clearing the
\* queue at the end of a sync drops no unprocessed anomaly.
C38_QueuedIsPendingOrProcessedOnce ==
  \A id \in 1..queued :
    LET pending == {i \in 1..Len(localStorage.pendingAnomalies) :
                      localStorage.pendingAnomalies[i].id = id}
        processed == {i \in 1..Len(localStorage.processedAnomalies) :
                        localStorage.processedAnomalies[i].id = id}
    IN /\ Cardinality(processed) <= 1
       /\ Cardinality(processed) = 1 \/ Cardinality(pending) = 1

=============================================================================
